---- MODULE Spec2Model ----
(***************************************************************************)
(* Authoritative server of snake402: the GameWorld (session registry,     *)
(* avatar simulation, tick loop) and the FoodManager (food pool), as      *)
(* found in server/src/index.ts and server/src/game/FoodManager.ts; and   *)
(* one browser client: its NetClient, its GameScene and the predictive    *)
(* Snake of the local avatar.                                              *)
(*                                                                         *)
(* Spec is the server with any number of untrusted connections;           *)
(* ClientSpec is the server with the connections of one client, whose     *)
(* handlers and frames run between those of the server; ReconnectSpec is  *)
(* that client when a connect may fail; RestartSpec is that client when   *)
(* the player restarts the game; WideSpec is the server with one          *)
(* connection and inputs outside the quarter turns.                        *)
(*                                                                         *)
(* Numbers.  Positions are absolute world pixels.  The model keeps them   *)
(* integral: headings are whole quarter turns (angle q stands for         *)
(* q * PI/2 radians, so cos and sin are -1, 0 or 1) and elapsed times are *)
(* multiples of 10 ms, for which speed * deltaTime / 1000 is an integer.  *)
(* A heading that is not a finite number (a missing or non-numeric angle  *)
(* field, or 1e999) is the record NaNAngle; arithmetic on it yields NaN   *)
(* and every comparison with NaN is false, as in IEEE 754.  For integral  *)
(* coordinates sqrt(d2) <= r is the same as d2 <= r*r.                    *)
(*                                                                         *)
(* Identifiers.  Player ids (player_<ms>_<random>) and food ids           *)
(* (food_<ms>_<Math.random()>) are modelled as fresh: a counter hands out *)
(* 1, 2, 3, ... and no identifier is issued twice.                        *)
(***************************************************************************)
EXTENDS Integers, Sequences, FiniteSets, TLC

(***************************************************************************)
(* Bounds of the model.                                                    *)
(***************************************************************************)
\* capacity of the food pool (maxFood; the server passes MAX_FOOD = 2500)
MaxFood == 2
\* connections accepted over a run
MaxPlayers == 2
\* runs of the game loop over a run of the server
MaxTicks == 2
\* accepted eat claims over a run (each spawns one replacement pellet)
MaxEats == 2
\* messages in flight on one direction of the client's socket
MaxInFlight == 3
\* restarts of the game over a run
MaxRestarts == 1

(***************************************************************************)
(* Program constants.                                                      *)
(***************************************************************************)
WORLD_WIDTH == 18000
WORLD_HEIGHT == 18000
GRID_SIZE == 20
BASE_SPEED == 200
\* BOOST_MULTIPLIER = 1.5, kept as tenths
BOOST_MULTIPLIER_X10 == 15
SNAKE_INITIAL_LENGTH == 3
FOOD_RADIUS == 15
SNAKE_EAT_RADIUS == 25
\* spawn margin of spawnFood: radius is drawn below arenaRadius - 50
FOOD_SPAWN_MARGIN == 50
\* addPlayer spawns inside ARENA_RADIUS * 0.3, kept as tenths
SPAWN_FRACTION_X10 == 3
\* client: milliseconds of boosting that cost one segment
BOOST_COST_RATE == 1000
\* client: the length at which boosting is refused
MIN_SNAKE_LENGTH == 2
\* reconnection attempts a NetClient makes before it gives up
maxReconnectAttempts == 5

Min(a, b) == IF a <= b THEN a ELSE b

ARENA_CENTER_X == WORLD_WIDTH \div 2
ARENA_CENTER_Y == WORLD_HEIGHT \div 2
ARENA_RADIUS == Min(WORLD_WIDTH, WORLD_HEIGHT) \div 2 - 500
MAX_FOOD == MaxFood

(***************************************************************************)
(* Headings and trigonometry.  The angle [q, off] stands for              *)
(* q * PI/2 + off * atan(4/3) radians, so that five times its cosine and  *)
(* sine are integers (the 3-4-5 triangle).  An angle with off = 2 stands  *)
(* for q * PI/2 + atan(15/8) radians, whose cosine and sine times 17 are  *)
(* integers (the 8-15-17 triangle); only spawnFood is given such angles.  *)
(***************************************************************************)
Angle(q) == [fin |-> TRUE, q |-> q, off |-> 0]
AngleOff(q) == [fin |-> TRUE, q |-> q, off |-> 1]
AngleSteep(q) == [fin |-> TRUE, q |-> q, off |-> 2]
NaNAngle == [fin |-> FALSE, q |-> 0, off |-> 0]

\* 5 * Math.cos(a) for a finite angle a
Cos5(a) == LET c0 == IF a.off = 0 THEN 5 ELSE 3
               s0 == IF a.off = 0 THEN 0 ELSE 4
           IN CASE a.q % 4 = 0 -> c0
                [] a.q % 4 = 1 -> -s0
                [] a.q % 4 = 2 -> -c0
                [] OTHER -> s0

\* 5 * Math.sin(a) for a finite angle a
Sin5(a) == LET c0 == IF a.off = 0 THEN 5 ELSE 3
               s0 == IF a.off = 0 THEN 0 ELSE 4
           IN CASE a.q % 4 = 0 -> s0
                [] a.q % 4 = 1 -> c0
                [] a.q % 4 = 2 -> -s0
                [] OTHER -> -c0

\* 17 * Math.cos(a) for an angle a of the 8-15-17 triangle
Cos17(a) == CASE a.q % 4 = 0 -> 8
              [] a.q % 4 = 1 -> -15
              [] a.q % 4 = 2 -> -8
              [] OTHER -> 15

\* 17 * Math.sin(a) for an angle a of the 8-15-17 triangle
Sin17(a) == CASE a.q % 4 = 0 -> 15
              [] a.q % 4 = 1 -> 8
              [] a.q % 4 = 2 -> -15
              [] OTHER -> -8

\* Math.cos(a) * r for a finite angle a
CosTimes(a, r) == IF a.off = 2 THEN (Cos17(a) * r) \div 17 ELSE (Cos5(a) * r) \div 5

\* Math.sin(a) * r for a finite angle a
SinTimes(a, r) == IF a.off = 2 THEN (Sin17(a) * r) \div 17 ELSE (Sin5(a) * r) \div 5

Sq(n) == n * n

\* squared Euclidean distance between two points
Dist2(x1, y1, x2, y2) == Sq(x1 - x2) + Sq(y1 - y2)

\* Math.round(v / g) * g for v >= 0 (halves round up)
SnapToGrid(v, g) == ((2 * v + g) \div (2 * g)) * g

(***************************************************************************)
(* Inputs the environment may supply.                                      *)
(***************************************************************************)
\* addPlayer: Math.random() * (ARENA_RADIUS * 0.3), strictly below the limit
SpawnRadii == {r \in {2500} : 10 * r < SPAWN_FRACTION_X10 * ARENA_RADIUS}
\* addPlayer: direction of the spawn point seen from the centre
SpawnDirs == {Angle(0)}
\* addPlayer: initial heading, Math.random() * 2 * PI, in [0, 2 PI)
SpawnHeadings == {Angle(3)}
\* the angle and throttle fields of the input messages clients send
InputMessages == {[angle |-> Angle(2), throttle |-> 1],
                  [angle |-> NaNAngle, throttle |-> 0]}
\* elapsed milliseconds between two runs of the game loop
DeltaTimes == {30000}
\* spawnFood: Math.sqrt(Math.random()) * (arenaRadius - 50)
FoodSpawnRadii == {r \in {2540} : r < ARENA_RADIUS - FOOD_SPAWN_MARGIN}
\* spawnFood: Math.random() * 2 * PI
FoodSpawnDirs == {Angle(0)}
\* spawnFood: the draws of one call; isLarge is Math.random() < 0.1
FoodSpawnChoices == [dir : FoodSpawnDirs, radius : FoodSpawnRadii, isLarge : BOOLEAN]
\* spawnFood after an accepted claim: the replacement pellets considered are
\* large ones
ReplacementChoices == {c \in FoodSpawnChoices : c.isLarge}
\* initializeFood: the draws of its maxFood calls of spawnFood, in order; the
\* initial pools considered hold one large pellet (the first) and small ones
InitialFoodChoices ==
  {picks \in [1..MAX_FOOD -> FoodSpawnChoices] :
     \A i \in 1..MAX_FOOD : picks[i].isLarge <=> (i = 1)}

(***************************************************************************)
(* Wider inputs, for the one avatar of WideSpec.                           *)
(***************************************************************************)
\* connections accepted over a run of WideSpec
WidePlayers == 1
\* addPlayer: the spawn radius; Math.random() may return 0, the arena centre
WideSpawnRadii == {r \in {0, 2500} : 10 * r < SPAWN_FRACTION_X10 * ARENA_RADIUS}
\* input messages: an oblique heading, with a throttle of the protocol (0 or
\* 1) and with one outside it
WideInputMessages == [angle : {AngleOff(0)}, throttle : {-1, 1}]
\* elapsed milliseconds between two runs of the game loop
WideDeltaTimes == {1000, 30000}
\* spawnFood after an accepted claim: radii near the spawn point of the
\* avatar and just below arenaRadius - 50, along an axis and oblique; the
\* replacement pellets considered are small ones
WideFoodSpawnChoices ==
  [dir : {Angle(0), AngleSteep(0)},
   radius : {r \in {2540, ARENA_RADIUS - FOOD_SPAWN_MARGIN - 1} :
               r < ARENA_RADIUS - FOOD_SPAWN_MARGIN},
   isLarge : {FALSE}]

(***************************************************************************)
(* State.                                                                  *)
(***************************************************************************)
VARIABLES
  players,       \* GameWorld.players: player id -> Player
  food,          \* FoodManager.food: food id -> FoodItem
  nextPlayerId,  \* the next fresh player id
  nextFoodId,    \* the next fresh food id
  ticks,         \* runs of the game loop so far
  wire,          \* the messages sent by the most recent handler, in order
  last,          \* what the most recent handler was and how it ended
  eaten,         \* per food id accepted as eaten: the pellet, its eaters in
                 \* order, and the number of food_eaten broadcasts for it
  received,      \* per connection that was sent anything: the type of the
                 \* first message sent to it and the number of hellos
  net,           \* the client's NetClient: its open socket, its connected
                 \* flag, its reconnection counters and what it waits for
  scene,         \* the client's GameScene: its networking and prediction state
  snake,         \* the client's predictive Snake
  toClient,      \* messages the server has sent on the client's socket
  toServer,      \* messages the client has sent on its socket
  clast,         \* what the client's most recent handler or frame did
  oldNet         \* the NetClient restartGame has disconnected and replaced

\* the variables of the client
cvars == <<net, scene, snake, toClient, toServer, clast, oldNet>>

vars == <<players, food, nextPlayerId, nextFoodId, ticks, wire, last, eaten, received,
          net, scene, snake, toClient, toServer, clast, oldNet>>

NoFood == [id |-> 0, x |-> 0, y |-> 0, type |-> "none", color |-> 0,
           size |-> 0, score |-> 0, growthAmount |-> 0]

\* the ids of a finite set of integers in ascending order (Map insertion order)
RECURSIVE Ascending(_)
Ascending(S) == IF S = {} THEN <<>>
                ELSE LET m == CHOOSE i \in S : \A j \in S : i <= j
                     IN <<m>> \o Ascending(S \ {m})

(***************************************************************************)
(* FoodManager.                                                            *)
(***************************************************************************)
\* this.food.set(id, food)
SetFood(pool, item) ==
  [i \in DOMAIN pool \cup {item.id} |-> IF i = item.id THEN item ELSE pool[i]]

\* this.food.delete(foodId)
DeleteFood(pool, foodId) == [i \in DOMAIN pool \ {foodId} |-> pool[i]]

\* SpawnFood whose large pellets carry the score of a small one
SpawnFood_LargeScoresAsSmall(id, c) ==
  LET x == ARENA_CENTER_X + CosTimes(c.dir, c.radius)
      y == ARENA_CENTER_Y + SinTimes(c.dir, c.radius)
  IN [id |-> id,
      x |-> SnapToGrid(x, GRID_SIZE),
      y |-> SnapToGrid(y, GRID_SIZE),
      type |-> IF c.isLarge THEN "large" ELSE "small",
      color |-> IF c.isLarge THEN 10233776 ELSE 16733986,
      size |-> IF c.isLarge THEN 40 ELSE 20,
      score |-> 10,
      growthAmount |-> IF c.isLarge THEN 2 ELSE 1]

\* the FoodItem spawnFood builds from its random draws
SpawnFood(id, c) ==
  LET x == ARENA_CENTER_X + CosTimes(c.dir, c.radius)
      y == ARENA_CENTER_Y + SinTimes(c.dir, c.radius)
  IN [id |-> id,
      x |-> SnapToGrid(x, GRID_SIZE),
      y |-> SnapToGrid(y, GRID_SIZE),
      type |-> IF c.isLarge THEN "large" ELSE "small",
      color |-> IF c.isLarge THEN 10233776 ELSE 16733986,
      size |-> IF c.isLarge THEN 40 ELSE 20,
      score |-> IF c.isLarge THEN 25 ELSE 10,
      growthAmount |-> IF c.isLarge THEN 2 ELSE 1]

\* spawnFood called once per element of picks, with ids firstId, firstId + 1, ...
RECURSIVE SpawnAll(_, _, _)
SpawnAll(pool, firstId, picks) ==
  IF Len(picks) = 0 THEN pool
  ELSE SpawnAll(SetFood(pool, SpawnFood(firstId, Head(picks))), firstId + 1, Tail(picks))

\* the pellets SpawnAll creates, in order
SpawnedItems(firstId, picks) ==
  [i \in 1..Len(picks) |-> SpawnFood(firstId + i - 1, picks[i])]

\* FoodShortfall with the loop test size <= maxFood
FoodShortfall_OffByOne(pool) ==
  LET size == Cardinality(DOMAIN pool)
  IN IF size <= MAX_FOOD THEN MAX_FOOD + 1 - size ELSE 0

\* how often the loop of maintainFoodCount runs: while (size < maxFood)
FoodShortfall(pool) ==
  LET size == Cardinality(DOMAIN pool)
  IN IF size < MAX_FOOD THEN MAX_FOOD - size ELSE 0

\* WithinEatRange with the test distance < collisionDistance
WithinEatRange_Strict(head, f) ==
  Dist2(head.x, head.y, f.x, f.y) < Sq(FOOD_RADIUS + SNAKE_EAT_RADIUS)

\* the collision test of validateEatAttempt: distance <= FOOD_RADIUS + SNAKE_EAT_RADIUS
WithinEatRange(head, f) ==
  Dist2(head.x, head.y, f.x, f.y) <= Sq(FOOD_RADIUS + SNAKE_EAT_RADIUS)

\* PoolAfterEat without this.food.delete(foodId)
PoolAfterEat_KeepsEaten(pool, foodId, newFood) == SetFood(pool, newFood)

\* PoolAfterEat without the replacement pellet
PoolAfterEat_NoReplacement(pool, foodId, newFood) == DeleteFood(pool, foodId)

\* the pool after an accepted claim: delete the eaten pellet, spawn a new one
PoolAfterEat(pool, foodId, newFood) == SetFood(DeleteFood(pool, foodId), newFood)

RejectedEat(pool) ==
  [success |-> FALSE, food |-> NoFood, newFood |-> NoFood, pool |-> pool]

\* ValidateEatAttempt whose replacement pellet takes over the id of the eaten one
ValidateEatAttempt_ReusesId(pool, player, foodId, newId, c) ==
  IF foodId \notin DOMAIN pool THEN RejectedEat(pool)
  ELSE IF Len(player.segments) = 0 THEN RejectedEat(pool)
  ELSE LET f == pool[foodId]
           head == player.segments[1]
       IN IF WithinEatRange(head, f)
          THEN LET nf == SpawnFood(foodId, c)
               IN [success |-> TRUE, food |-> f, newFood |-> nf,
                   pool |-> PoolAfterEat(pool, foodId, nf)]
          ELSE RejectedEat(pool)

\* validateEatAttempt: the FoodEatenResult and the pool it leaves behind;
\* newId and c are the id and the random draws of the replacement pellet
ValidateEatAttempt(pool, player, foodId, newId, c) ==
  IF foodId \notin DOMAIN pool THEN RejectedEat(pool)
  ELSE IF Len(player.segments) = 0 THEN RejectedEat(pool)
  ELSE LET f == pool[foodId]
           head == player.segments[1]
       IN IF WithinEatRange(head, f)
          THEN LET nf == SpawnFood(newId, c)
               IN [success |-> TRUE, food |-> f, newFood |-> nf,
                   pool |-> PoolAfterEat(pool, foodId, nf)]
          ELSE RejectedEat(pool)

(***************************************************************************)
(* GameWorld: the avatars.                                                 *)
(***************************************************************************)
\* AddPlayer whose chain starts one grid step behind the position
AddPlayer_ChainBehindHead(playerId, d, r, h) ==
  LET x == ARENA_CENTER_X + (Cos5(d) * r) \div 5
      y == ARENA_CENTER_Y + (Sin5(d) * r) \div 5
  IN [id |-> playerId,
      ws |-> "OPEN",
      x |-> x,
      y |-> y,
      angle |-> h,
      targetAngle |-> Angle(0),
      speed |-> BASE_SPEED,
      isBoosting |-> FALSE,
      segments |-> [i \in 1..SNAKE_INITIAL_LENGTH |->
                      [x |-> x - (i * GRID_SIZE * Cos5(h)) \div 5,
                       y |-> y - (i * GRID_SIZE * Sin5(h)) \div 5]],
      length |-> SNAKE_INITIAL_LENGTH,
      score |-> 0,
      lastInput |-> [angle |-> Angle(0), throttle |-> 0]]

\* addPlayer: the Player placed at radius r in direction d with heading h
AddPlayer(playerId, d, r, h) ==
  LET x == ARENA_CENTER_X + (Cos5(d) * r) \div 5
      y == ARENA_CENTER_Y + (Sin5(d) * r) \div 5
  IN [id |-> playerId,
      ws |-> "OPEN",
      x |-> x,
      y |-> y,
      angle |-> h,
      targetAngle |-> Angle(0),
      speed |-> BASE_SPEED,
      isBoosting |-> FALSE,
      segments |-> [i \in 1..SNAKE_INITIAL_LENGTH |->
                      [x |-> x - ((i - 1) * GRID_SIZE * Cos5(h)) \div 5,
                       y |-> y - ((i - 1) * GRID_SIZE * Sin5(h)) \div 5]],
      length |-> SNAKE_INITIAL_LENGTH,
      score |-> 0,
      lastInput |-> [angle |-> Angle(0), throttle |-> 0]]

\* UpdatePlayerInput that only ever switches boosting on
UpdatePlayerInput_StickyBoost(pl, input) ==
  [pl EXCEPT !.lastInput = input,
             !.targetAngle = input.angle,
             !.isBoosting = pl.isBoosting \/ input.throttle > 0]

\* updatePlayerInput, for a registered player
UpdatePlayerInput(pl, input) ==
  [pl EXCEPT !.lastInput = input,
             !.targetAngle = input.angle,
             !.isBoosting = input.throttle > 0]

\* UpdatePlayerSegments without the loop that pops
UpdatePlayerSegments_NoPop(pl) ==
  [pl EXCEPT !.segments = <<[x |-> pl.x, y |-> pl.y]>> \o pl.segments]

\* updatePlayerSegments: unshift the head, pop while longer than length
UpdatePlayerSegments(pl) ==
  LET pushed == <<[x |-> pl.x, y |-> pl.y]>> \o pl.segments
  IN [pl EXCEPT !.segments = IF Len(pushed) > pl.length
                             THEN SubSeq(pushed, 1, pl.length)
                             ELSE pushed]

\* InsideArena comparing with the size of the world instead of ARENA_RADIUS
InsideArena_WholeWorld(x, y) ==
  Dist2(x, y, ARENA_CENTER_X, ARENA_CENTER_Y) <= Sq(WORLD_WIDTH + WORLD_HEIGHT)

\* the boundary test of updatePlayer: distanceFromCenter <= ARENA_RADIUS
InsideArena(x, y) ==
  Dist2(x, y, ARENA_CENTER_X, ARENA_CENTER_Y) <= Sq(ARENA_RADIUS)

\* SpeedOf whose boost doubles the speed
SpeedOf_BoostDoubles(isBoosting) ==
  IF isBoosting THEN BASE_SPEED * 2 ELSE BASE_SPEED

\* the speed updatePlayer takes from the boosting flag
SpeedOf(isBoosting) ==
  IF isBoosting THEN (BASE_SPEED * BOOST_MULTIPLIER_X10) \div 10 ELSE BASE_SPEED

\* Moves without the test of the boundary
Moves_IgnoresBoundary(pl, deltaTime) == pl.targetAngle.fin

\* whether updatePlayer commits the move (false when the new position is NaN)
Moves(pl, deltaTime) ==
  LET a == pl.targetAngle
      moveDistance == (SpeedOf(pl.isBoosting) * deltaTime) \div 1000
  IN /\ a.fin
     /\ InsideArena(pl.x + (Cos5(a) * moveDistance) \div 5,
                    pl.y + (Sin5(a) * moveDistance) \div 5)

\* updatePlayer
UpdatePlayer(pl, deltaTime) ==
  LET turned == [pl EXCEPT !.angle = pl.targetAngle,
                           !.speed = SpeedOf(pl.isBoosting)]
      a == turned.angle
      moveDistance == (turned.speed * deltaTime) \div 1000
  IN IF Moves(pl, deltaTime)
     THEN UpdatePlayerSegments(
            [turned EXCEPT !.x = pl.x + (Cos5(a) * moveDistance) \div 5,
                           !.y = pl.y + (Sin5(a) * moveDistance) \div 5])
     ELSE turned

\* ApplyGrowth that grows by one segment whatever the pellet
ApplyGrowth_ByOne(pl, f) ==
  [pl EXCEPT !.score = pl.score + f.score,
             !.length = pl.length + 1]

\* the score and growth handleEatAttempt awards for an accepted claim
ApplyGrowth(pl, f) ==
  [pl EXCEPT !.score = pl.score + f.score,
             !.length = pl.length + f.growthAmount]

\* AfterClaim with the segment resync moved out of the if
AfterClaim_AlwaysResync(pl, result) ==
  UpdatePlayerSegments(IF result.success THEN ApplyGrowth(pl, result.food) ELSE pl)

\* the Player handleEatAttempt leaves behind, given the FoodEatenResult
AfterClaim(pl, result) ==
  IF result.success
  THEN UpdatePlayerSegments(ApplyGrowth(pl, result.food))
  ELSE pl

(***************************************************************************)
(* GameWorld: messages.                                                    *)
(***************************************************************************)
\* Broadcast that ignores excludePlayerId
Broadcast_IgnoresExcluded(registry, type, body, excluded) ==
  [type |-> type,
   to |-> {p \in DOMAIN registry : registry[p].ws = "OPEN"},
   body |-> body]

\* broadcast: one message to every registered player, but the excluded ones,
\* whose socket is open (player.ws.readyState === WebSocket.OPEN)
Broadcast(registry, type, body, excluded) ==
  [type |-> type,
   to |-> {p \in DOMAIN registry \ excluded : registry[p].ws = "OPEN"},
   body |-> body]

\* ws.send on one connection
SendTo(playerId, type, body) == [type |-> type, to |-> {playerId}, body |-> body]

\* the PlayerState getState builds for one Player
PlayerStateOf(pl) ==
  [id |-> pl.id, x |-> pl.x, y |-> pl.y, angle |-> pl.angle, length |-> pl.length,
   segments |-> pl.segments, isBoosting |-> pl.isBoosting, score |-> pl.score]

\* GetState that lists the players from the second on
GetState_SkipsFirstPlayer(registry, pool) ==
  LET pids == Ascending(DOMAIN registry)
      fids == Ascending(DOMAIN pool)
  IN [players |-> [i \in 1..(Len(pids) - 1) |-> PlayerStateOf(registry[pids[i + 1]])],
      food |-> [i \in 1..Len(fids) |-> pool[fids[i]]]]

\* getState
GetState(registry, pool) ==
  LET pids == Ascending(DOMAIN registry)
      fids == Ascending(DOMAIN pool)
  IN [players |-> [i \in 1..Len(pids) |-> PlayerStateOf(registry[pids[i]])],
      food |-> [i \in 1..Len(fids) |-> pool[fids[i]]]]

\* broadcastFoodUpdate
BroadcastFoodUpdate(registry, action, f) ==
  Broadcast(registry, "food", [action |-> action, food |-> f], {})

(***************************************************************************)
(* Bookkeeping of the run (not program state).                             *)
(***************************************************************************)
\* the eating range the specification states: pellet radius plus eat radius
EatRange == FOOD_RADIUS + SNAKE_EAT_RADIUS

\* the head of avatar pl lies within distance d of pellet f
HeadWithin(pl, f, d) ==
  /\ Len(pl.segments) > 0
  /\ Dist2(pl.segments[1].x, pl.segments[1].y, f.x, f.y) <= d * d

\* last: the handler that ran.  For an eat_attempt: whether the claimant was
\* registered (known), whether the food id was live, whether the claimant's
\* head was within EatRange of the pellet (live or eaten before), whether the
\* claim was accepted and, when the pellet is or was eaten, the claimant and
\* the food id.  For a tick: the avatars it did not move and the elapsed
\* time.  For an input, a close and an error: the connection; for an input or a dropped message
\* whether the connection's player was registered (known); for an input the
\* angle and throttle of the message.
NoInput == [angle |-> Angle(0), throttle |-> 0]

Idle(op) == [op |-> op, player |-> 0, foodId |-> 0, known |-> FALSE, live |-> FALSE,
             within |-> FALSE, accepted |-> FALSE, blocked |-> {}, input |-> NoInput,
             deltaTime |-> 0]

\* last after the claim of playerId for foodId was handled in the current state
ClaimRecord(registry, pool, e, playerId, foodId, accepted) ==
  LET known == playerId \in DOMAIN registry
      live == foodId \in DOMAIN pool
      within == /\ known
                /\ \/ live /\ HeadWithin(registry[playerId], pool[foodId], EatRange)
                   \/ /\ foodId \in DOMAIN e
                      /\ HeadWithin(registry[playerId], e[foodId].item, EatRange)
      named == accepted \/ foodId \in DOMAIN e
  IN [op |-> "eat_attempt",
      player |-> IF named THEN playerId ELSE 0,
      foodId |-> IF named THEN foodId ELSE 0,
      known |-> known, live |-> live, within |-> within,
      accepted |-> accepted, blocked |-> {}, input |-> NoInput, deltaTime |-> 0]

\* eaten after handleEatAttempt accepted the claim of playerId on pellet f
\* and sent msgs
NoteEaten(e, f, playerId, msgs) ==
  LET sent == Cardinality({k \in 1..Len(msgs) :
                             msgs[k].type = "food_eaten" /\ msgs[k].body.foodId = f.id})
  IN [i \in DOMAIN e \cup {f.id} |->
        IF i \in DOMAIN e
        THEN IF i = f.id
             THEN [e[i] EXCEPT !.by = Append(@, playerId), !.msgs = @ + sent]
             ELSE e[i]
        ELSE [item |-> f, by |-> <<playerId>>, msgs |-> sent]]

\* received after the messages msgs have been sent, in order
RECURSIVE Deliver(_, _)
Deliver(rcv, msgs) ==
  IF Len(msgs) = 0 THEN rcv
  ELSE LET m == Head(msgs)
           hello == IF m.type = "hello" THEN 1 ELSE 0
           next == [p \in DOMAIN rcv \cup m.to |->
                      IF p \in m.to
                      THEN IF p \in DOMAIN rcv
                           THEN [rcv[p] EXCEPT !.hellos = @ + hello]
                           ELSE [first |-> m.type, hellos |-> hello]
                      ELSE rcv[p]]
       IN Deliver(next, Tail(msgs))

(***************************************************************************)
(* The client: Snake (client/src/Snake.ts), GameScene and NetClient.       *)
(***************************************************************************)
\* no Snake has been constructed yet
NoSnake == [exists |-> FALSE, segments |-> 0, isBoosting |-> FALSE, boostTime |-> 0,
            head |-> [x |-> 0, y |-> 0]]

\* Snake constructor at grid cell (floor(x / GRID_SIZE), floor(y / GRID_SIZE)):
\* SNAKE_INITIAL_LENGTH segments, the head at the centre of the cell; segments
\* is the number of segments
NewSnake(spawnPosition) ==
  [exists |-> TRUE, segments |-> SNAKE_INITIAL_LENGTH, isBoosting |-> FALSE,
   boostTime |-> 0,
   head |-> [x |-> (spawnPosition.x \div GRID_SIZE) * GRID_SIZE + GRID_SIZE \div 2,
             y |-> (spawnPosition.y \div GRID_SIZE) * GRID_SIZE + GRID_SIZE \div 2]]

\* Snake.grow: one segment more
Grow(s) == [s EXCEPT !.segments = @ + 1]

\* Snake.shrink: one segment less, never below MIN_SNAKE_LENGTH
Shrink(s) == IF s.segments <= MIN_SNAKE_LENGTH THEN s ELSE [s EXCEPT !.segments = @ - 1]

RECURSIVE GrowTimes(_, _)
\* for (i < n) this.snake.grow()
GrowTimes(s, n) == IF n <= 0 THEN s ELSE GrowTimes(Grow(s), n - 1)

RECURSIVE ShrinkTimes(_, _)
\* for (i < n) this.snake.shrink()
ShrinkTimes(s, n) == IF n <= 0 THEN s ELSE ShrinkTimes(Shrink(s), n - 1)

\* Snake.setBoosting: refused at MIN_SNAKE_LENGTH or less
SetBoosting(s, boosting) ==
  [s EXCEPT !.isBoosting = IF boosting /\ s.segments <= MIN_SNAKE_LENGTH
                           THEN FALSE ELSE boosting]

\* Snake.update: boosting, and boostTime += delta reaches BOOST_COST_RATE
ReachesCost(s, delta) == s.isBoosting /\ s.boostTime + delta >= BOOST_COST_RATE

\* Snake.update: the boost cost, then the head moves (to a position the frame
\* supplies)
SnakeUpdate(s, delta, head) ==
  LET paid == IF s.isBoosting
              THEN IF ReachesCost(s, delta)
                   THEN LET shorter == Shrink(s)
                        IN [shorter EXCEPT !.boostTime = 0,
                                           !.isBoosting = shorter.segments > MIN_SNAKE_LENGTH]
                   ELSE [s EXCEPT !.boostTime = @ + delta]
              ELSE [s EXCEPT !.boostTime = 0]
  IN [paid EXCEPT !.head = head]

\* the calls a reconciliation makes and the baseline it leaves, for a known
\* baseline: one grow() too many
LengthChange_GrowsOnceMore(lastKnownServerLength, serverLength) ==
  LET lengthDifference == serverLength - lastKnownServerLength
  IN IF lengthDifference > 0
     THEN [grows |-> lengthDifference + 1, shrinks |-> 0, lastKnown |-> serverLength]
     ELSE IF lengthDifference < 0
     THEN [grows |-> 0, shrinks |-> 0 - lengthDifference, lastKnown |-> serverLength]
     ELSE [grows |-> 0, shrinks |-> 0, lastKnown |-> lastKnownServerLength]

\* handleServerLengthChange for a known baseline: the calls of grow() and of
\* shrink() it makes and the baseline it leaves
LengthChange(lastKnownServerLength, serverLength) ==
  LET lengthDifference == serverLength - lastKnownServerLength
  IN IF lengthDifference > 0
     THEN [grows |-> lengthDifference, shrinks |-> 0, lastKnown |-> serverLength]
     ELSE IF lengthDifference < 0
     THEN [grows |-> 0, shrinks |-> 0 - lengthDifference, lastKnown |-> serverLength]
     ELSE [grows |-> 0, shrinks |-> 0, lastKnown |-> lastKnownServerLength]

\* handleServerLengthChange: without a snake nothing; the first length seen
\* (lastKnownServerLength = 0) becomes the baseline and the snake is left
\* as it is; afterwards the difference to the baseline is applied
HandleServerLengthChange(sc, s, serverLength) ==
  IF ~s.exists
  THEN [scene |-> sc, snake |-> s, grows |-> 0, shrinks |-> 0, baselined |-> FALSE]
  ELSE IF sc.lastKnownServerLength = 0
  THEN [scene |-> [sc EXCEPT !.lastKnownServerLength = serverLength], snake |-> s,
        grows |-> 0, shrinks |-> 0, baselined |-> TRUE]
  ELSE LET c == LengthChange(sc.lastKnownServerLength, serverLength)
       IN [scene |-> [sc EXCEPT !.lastKnownServerLength = c.lastKnown],
           snake |-> ShrinkTimes(GrowTimes(s, c.grows), c.shrinks),
           grows |-> c.grows, shrinks |-> c.shrinks, baselined |-> FALSE]

\* updateNetworkFood: the pellets of the list, by id
UpdateNetworkFood(list) ==
  [id \in {list[k].id : k \in 1..Len(list)} |->
     (CHOOSE f \in {list[k] : k \in 1..Len(list)} : f.id = id)]

\* addNetworkFood
AddNetworkFood(networkFood, f) ==
  [id \in DOMAIN networkFood \cup {f.id} |-> IF id = f.id THEN f ELSE networkFood[id]]

\* removeNetworkFood
RemoveNetworkFood(networkFood, ids) ==
  [id \in DOMAIN networkFood \ ids |-> networkFood[id]]

\* the entry of the local player in a snapshot, as a set of at most one
LocalPlayer(body, playerId) ==
  {body.players[k] : k \in {j \in 1..Len(body.players) : body.players[j].id = playerId}}

\* clast: the handler or frame of the client that ran; for a state message
\* whether handleServerLengthChange was called (reconciled), the length the
\* snapshot declared, the baseline it met, the calls of grow() and shrink()
\* made; for a frame the pellets it predicted eaten, whether the boost
\* accumulator reached BOOST_COST_RATE in its update, the throttle of the
\* input it sent (-1 when it sent none) and the snake's isBoosting flag when
\* it sent it; for each the number of
\* segments of the snake before it.  Over the run: the baseline taken and the
\* calls of grow() and shrink() made by any handler since; the connects the
\* reconnection timer made since the last open of a socket (tries) and the
\* number of 'Failed to reconnect to server' errors emitted (terminal)
ClientIdle(op) ==
  [op |-> op, reconciled |-> FALSE, serverLength |-> 0, lastKnown |-> 0,
   grows |-> 0, shrinks |-> 0, predicted |-> {}, segments |-> snake.segments,
   baseline |-> clast.baseline, grown |-> clast.grown, shrunk |-> clast.shrunk,
   tries |-> clast.tries, terminal |-> clast.terminal, reached |-> FALSE,
   throttle |-> -1, boosting |-> FALSE]

\* the state of the GameScene before any connection
NoScene ==
  [playerId |-> 0, isConnected |-> FALSE, hasReceivedInitialFood |-> FALSE,
   lastKnownServerLength |-> 0, predictedEatenFood |-> {}, networkFood |-> <<>>]

\* the messages of msgs sent on the socket of connection id
ForClient(msgs, id) == SelectSeq(msgs, LAMBDA m : id \in m.to)

\* new NetClient(): no open socket (ws 0), nothing pending; timerDelay is
\* the delay the pending timer was set with
NewNetClient ==
  [ws |-> 0, connected |-> FALSE, playerId |-> 0,
   reconnectAttempts |-> 0, reconnectDelay |-> 1000, pending |-> "none",
   timerDelay |-> 0]

\* NetClient.attemptReconnect on the NetClient n: at the cap it emits the
\* terminal error and returns, below it counts the attempt and sets the timer
\* whose callback will connect
GivesUp(n) == n.reconnectAttempts >= maxReconnectAttempts

AttemptReconnect_NoCap(n) ==
  [n EXCEPT !.reconnectAttempts = @ + 1, !.pending = "timer",
            !.timerDelay = n.reconnectDelay]

AttemptReconnect(n) ==
  IF GivesUp(n)
  THEN n
  ELSE [n EXCEPT !.reconnectAttempts = @ + 1, !.pending = "timer",
                 !.timerDelay = n.reconnectDelay]

\* Backoff that doubles without limit
Backoff_Uncapped(reconnectDelay) == reconnectDelay * 2

\* the catch of attemptReconnect's connect(): exponential backoff
Backoff(reconnectDelay) == Min(reconnectDelay * 2, 10000)

\* ws.onclose on the NetClient n, up to its call of attemptReconnect
OnClose(n) ==
  AttemptReconnect([n EXCEPT !.ws = 0, !.connected = FALSE, !.playerId = 0,
                             !.pending = "none"])

\* GameScene's 'disconnected' handler
OnDisconnected(s) ==
  [s EXCEPT !.isConnected = FALSE, !.playerId = 0, !.networkFood = <<>>]

\* oldNet before any restart.  client is the NetClient object; closing tells
\* what its socket was when disconnect() closed it ("open", "connect",
\* "reconnect") until ws.onclose has run, session is the server's connection
\* of that socket; disconnected counts the 'disconnected' events the object
\* has emitted since disconnect(), scheduled the timers it has set since;
\* restarts counts the restarts of the run
NoOld ==
  [exists |-> FALSE, client |-> NewNetClient, closing |-> "none", session |-> 0,
   disconnected |-> 0, scheduled |-> 0, restarts |-> 0]

\* the client once GameScene.create has run setupNetworking: the NetClient is
\* new and the socket of its first connect() is connecting
ClientInit ==
  /\ net = [NewNetClient EXCEPT !.pending = "connect"]
  /\ oldNet = NoOld
  /\ scene = NoScene
  /\ snake = NoSnake
  /\ toClient = <<>>
  /\ toServer = <<>>
  /\ clast = [op |-> "init", reconciled |-> FALSE, serverLength |-> 0, lastKnown |-> 0,
              grows |-> 0, shrinks |-> 0, predicted |-> {}, segments |-> 0,
              baseline |-> 0, grown |-> 0, shrunk |-> 0,
              tries |-> 0, terminal |-> 0, reached |-> FALSE,
              throttle |-> -1, boosting |-> FALSE]


(***************************************************************************)
(* Initial state: new GameWorld(), whose FoodManager fills the pool.       *)
(***************************************************************************)
Init ==
  \E picks \in InitialFoodChoices :
    /\ players = <<>>
    /\ food = SpawnAll(<<>>, 1, picks)
    /\ nextPlayerId = 1
    /\ nextFoodId = MAX_FOOD + 1
    /\ ticks = 0
    /\ wire = <<>>
    /\ last = Idle("init")
    /\ eaten = <<>>
    /\ received = <<>>
    /\ ClientInit

(***************************************************************************)
(* wss.on('connection'): addPlayer, hello, initial state, spawn broadcast. *)
(***************************************************************************)
Connection(d, r, h) ==
  LET playerId == nextPlayerId
      player == AddPlayer(playerId, d, r, h)
      registry == [i \in DOMAIN players \cup {playerId} |->
                     IF i = playerId THEN player ELSE players[i]]
  IN /\ nextPlayerId <= MaxPlayers
     /\ players' = registry
     /\ nextPlayerId' = nextPlayerId + 1
     /\ wire' = << SendTo(playerId, "hello",
                          [playerId |-> playerId,
                           spawnPosition |-> [x |-> player.x, y |-> player.y]]),
                   SendTo(playerId, "state", GetState(registry, food)),
                   Broadcast(registry, "spawn",
                             [playerId |-> playerId,
                              position |-> [x |-> player.x, y |-> player.y]],
                             {playerId}) >>
     /\ last' = [Idle("connection") EXCEPT !.player = playerId]
     /\ received' = Deliver(received, wire')
     /\ UNCHANGED <<food, nextFoodId, ticks, eaten>>

(***************************************************************************)
(* ws.on('message'): the branch taken for a message.                       *)
(***************************************************************************)
\* MessageBranch whose chain of tests ends in the input branch
MessageBranch_DefaultsToInput(m) ==
  IF ~m.parsed THEN "catch"
  ELSE IF m.type = "eat_attempt" THEN "eat_attempt"
  ELSE IF m.type = "debug" THEN "debug"
  ELSE "input"

\* JSON.parse throws into the catch; otherwise the chain of tests on type
MessageBranch(m) ==
  IF ~m.parsed THEN "catch"
  ELSE IF m.type = "input" THEN "input"
  ELSE IF m.type = "eat_attempt" THEN "eat_attempt"
  ELSE IF m.type = "debug" THEN "debug"
  ELSE "unknown"

\* messages that are neither an input nor an eat_attempt: a payload that is
\* not JSON, a debug message, a message of a type the server does not know
OtherMessages == {[parsed |-> FALSE, type |-> ""],
                  [parsed |-> TRUE, type |-> "debug"],
                  [parsed |-> TRUE, type |-> "ping"]}

(***************************************************************************)
(* ws.on('message'), type 'input'.  The handler closes over its playerId   *)
(* and updatePlayerInput looks the player up.                              *)
(***************************************************************************)
Input(playerId, angle, throttle) ==
  /\ playerId \in DOMAIN players => players[playerId].ws = "OPEN"
  /\ players' = IF playerId \in DOMAIN players
                THEN [players EXCEPT ![playerId] =
                        UpdatePlayerInput(@, [angle |-> angle, throttle |-> throttle])]
                ELSE players
  /\ wire' = <<>>
  /\ last' = [Idle("input") EXCEPT !.player = playerId,
                                   !.known = playerId \in DOMAIN players,
                                   !.input = [angle |-> angle, throttle |-> throttle]]
  /\ UNCHANGED <<food, nextPlayerId, nextFoodId, ticks, eaten, received>>

(***************************************************************************)
(* ws.on('message'), any other message: logged and dropped.  A message     *)
(* without angle and throttle fields that reached the input branch would   *)
(* store undefined for both.                                               *)
(***************************************************************************)
Dropped(playerId, m) ==
  /\ playerId \in DOMAIN players => players[playerId].ws = "OPEN"
  /\ players' = IF MessageBranch(m) = "input" /\ playerId \in DOMAIN players
                THEN [players EXCEPT ![playerId] =
                        UpdatePlayerInput(@, [angle |-> NaNAngle, throttle |-> 0])]
                ELSE players
  /\ wire' = <<>>
  /\ last' = [Idle("dropped") EXCEPT !.known = playerId \in DOMAIN players]
  /\ UNCHANGED <<food, nextPlayerId, nextFoodId, ticks, eaten, received>>

(***************************************************************************)
(* ws.on('message'), type 'eat_attempt': handleEatAttempt.                 *)
(***************************************************************************)
\* EatBroadcasts without the despawn of the eaten pellet
EatBroadcasts_NoDespawn(registry, playerId, foodId, result) ==
  << Broadcast(registry, "food_eaten", [foodId |-> foodId, by |-> playerId], {}),
     BroadcastFoodUpdate(registry, "spawn", result.newFood) >>

\* EatBroadcasts announcing the replacement before the despawn
EatBroadcasts_SpawnBeforeDespawn(registry, playerId, foodId, result) ==
  << Broadcast(registry, "food_eaten", [foodId |-> foodId, by |-> playerId], {}),
     BroadcastFoodUpdate(registry, "spawn", result.newFood),
     BroadcastFoodUpdate(registry, "despawn", result.food) >>

\* the messages of an accepted claim, in the order they are sent
EatBroadcasts(registry, playerId, foodId, result) ==
  << Broadcast(registry, "food_eaten", [foodId |-> foodId, by |-> playerId], {}),
     BroadcastFoodUpdate(registry, "despawn", result.food),
     BroadcastFoodUpdate(registry, "spawn", result.newFood) >>

HandleEatAttempt(playerId, foodId, c) ==
  IF playerId \notin DOMAIN players
  THEN /\ wire' = <<>>
       /\ last' = ClaimRecord(players, food, eaten, playerId, foodId, FALSE)
       /\ UNCHANGED <<players, food, nextFoodId, eaten, received>>
  ELSE LET player == players[playerId]
           result == ValidateEatAttempt(food, player, foodId, nextFoodId, c)
           msgs == IF result.success
                   THEN EatBroadcasts(players, playerId, foodId, result)
                   ELSE <<>>
       IN /\ result.success => nextFoodId <= MAX_FOOD + MaxEats
          /\ players' = [players EXCEPT ![playerId] = AfterClaim(player, result)]
          /\ food' = result.pool
          /\ nextFoodId' = IF result.success THEN nextFoodId + 1 ELSE nextFoodId
          /\ wire' = msgs
          /\ last' = ClaimRecord(players, food, eaten, playerId, foodId, result.success)
          /\ eaten' = IF result.success
                      THEN NoteEaten(eaten, result.food, playerId, msgs)
                      ELSE eaten
          /\ received' = Deliver(received, msgs)

\* spawnFood draws random numbers only when the claim is accepted
ReplacementDraws(playerId, foodId) ==
  IF playerId \in DOMAIN players /\ foodId \in DOMAIN food
  THEN ReplacementChoices
  ELSE {CHOOSE c \in ReplacementChoices : TRUE}

\* the claimant is any connection ever accepted (handleEatAttempt looks the
\* player up itself) and the food id is any id issued so far or an unknown one;
\* a connection whose transport has failed delivers no further message
EatAttempt ==
  \E playerId \in 1..(nextPlayerId - 1), foodId \in 1..nextFoodId :
    \E c \in ReplacementDraws(playerId, foodId) :
      /\ playerId \in DOMAIN players => players[playerId].ws = "OPEN"
      /\ HandleEatAttempt(playerId, foodId, c)
      /\ UNCHANGED <<nextPlayerId, ticks>>

(***************************************************************************)
(* ws.on('close'): removePlayer, die broadcast.                            *)
(***************************************************************************)
\* RemovePlayer that leaves the registry as it is
RemovePlayer_Keeps(registry, playerId) == registry

\* removePlayer: this.players.delete(playerId)
RemovePlayer(registry, playerId) ==
  [i \in DOMAIN registry \ {playerId} |-> registry[i]]

Close(playerId) ==
  LET registry == RemovePlayer(players, playerId)
  IN /\ playerId \in DOMAIN players
     /\ players' = registry
     /\ wire' = << Broadcast(registry, "die",
                             [playerId |-> playerId, reason |-> "disconnected"], {}) >>
     /\ last' = [Idle("close") EXCEPT !.player = playerId]
     /\ received' = Deliver(received, wire')
     /\ UNCHANGED <<food, nextPlayerId, nextFoodId, ticks, eaten>>

(***************************************************************************)
(* ws.on('error'): the transport of a connection has failed, so its socket *)
(* is no longer open; the handler logs the error.                          *)
(***************************************************************************)
\* Error that evicts the player without the close handler
Error_Evicts(playerId) ==
  /\ playerId \in DOMAIN players
  /\ players[playerId].ws = "OPEN"
  /\ players' = RemovePlayer(players, playerId)
  /\ wire' = <<>>
  /\ last' = [Idle("error") EXCEPT !.player = playerId]
  /\ UNCHANGED <<food, nextPlayerId, nextFoodId, ticks, eaten, received>>

Error(playerId) ==
  /\ playerId \in DOMAIN players
  /\ players[playerId].ws = "OPEN"
  /\ players' = [players EXCEPT ![playerId].ws = "CLOSING"]
  /\ wire' = <<>>
  /\ last' = [Idle("error") EXCEPT !.player = playerId]
  /\ UNCHANGED <<food, nextPlayerId, nextFoodId, ticks, eaten, received>>

(***************************************************************************)
(* The game loop: tick(deltaTime), then getState and broadcast.            *)
(***************************************************************************)
\* TickMessages with the state broadcast inside the loop over the players
TickMessages_SnapshotPerPlayer(advanced, pool, newFood) ==
  [k \in 1..Len(newFood) |-> BroadcastFoodUpdate(advanced, "spawn", newFood[k])]
  \o [k \in 1..Cardinality(DOMAIN advanced) |->
        Broadcast(advanced, "state", GetState(advanced, pool), {})]

\* the messages of one run of the game loop, in order: the spawn broadcasts
\* of maintainFood, then the broadcast of getState()
TickMessages(advanced, pool, newFood) ==
  [k \in 1..Len(newFood) |-> BroadcastFoodUpdate(advanced, "spawn", newFood[k])]
  \o << Broadcast(advanced, "state", GetState(advanced, pool), {}) >>

Tick(deltaTime) ==
  \E picks \in [1..FoodShortfall(food) -> FoodSpawnChoices] :
    LET advanced == [i \in DOMAIN players |->
                       UpdatePlayerSegments(UpdatePlayer(players[i], deltaTime))]
        pool == SpawnAll(food, nextFoodId, picks)
        newFood == SpawnedItems(nextFoodId, picks)
        msgs == TickMessages(advanced, pool, newFood)
    IN /\ ticks < MaxTicks
       /\ players' = advanced
       /\ food' = pool
       /\ nextFoodId' = nextFoodId + Len(picks)
       /\ ticks' = ticks + 1
       /\ wire' = msgs
       /\ last' = [Idle("tick") EXCEPT
                     !.blocked = {i \in DOMAIN players : ~Moves(players[i], deltaTime)},
                     !.deltaTime = deltaTime]
       /\ received' = Deliver(received, msgs)
       /\ UNCHANGED <<nextPlayerId, eaten>>

\* the server's handlers, for messages of any connection in any order
Next ==
  \/ \E d \in SpawnDirs, r \in SpawnRadii, h \in SpawnHeadings :
       Connection(d, r, h) /\ UNCHANGED cvars
  \/ \E playerId \in 1..(nextPlayerId - 1), m \in InputMessages :
       Input(playerId, m.angle, m.throttle) /\ UNCHANGED cvars
  \/ \E playerId \in 1..(nextPlayerId - 1), m \in OtherMessages :
       Dropped(playerId, m) /\ UNCHANGED cvars
  \/ EatAttempt /\ UNCHANGED cvars
  \/ \E playerId \in DOMAIN players : Close(playerId) /\ UNCHANGED cvars
  \/ \E playerId \in DOMAIN players : Error(playerId) /\ UNCHANGED cvars
  \/ \E deltaTime \in DeltaTimes : Tick(deltaTime) /\ UNCHANGED cvars

Spec == Init /\ [][Next]_vars

(***************************************************************************)
(* NetClient.connect and ws.onopen, with the server's 'connection' handler *)
(* accepting the socket.  The socket is named by the player id the server  *)
(* gives its connection.  The socket is the one connect() created, called  *)
(* by setupNetworking or by the timer of attemptReconnect.                 *)
(***************************************************************************)
ClientConnect(d, r, h) ==
  /\ net.pending \in {"connect", "reconnect"}
  /\ Connection(d, r, h)
  /\ net' = [net EXCEPT !.ws = nextPlayerId,
                        !.connected = TRUE,
                        !.reconnectAttempts = 0,
                        !.reconnectDelay = 1000,
                        !.pending = "none"]
  /\ toClient' = ForClient(wire', nextPlayerId)
  /\ toServer' = <<>>
  /\ clast' = [ClientIdle("open") EXCEPT !.tries = 0]
  /\ UNCHANGED <<scene, snake>>

(***************************************************************************)
(* The timer attemptReconnect set fires: its callback calls connect(),     *)
(* which creates a socket.                                                 *)
(***************************************************************************)
TimerFires ==
  /\ net.pending = "timer"
  /\ net' = [net EXCEPT !.pending = "reconnect", !.timerDelay = 0]
  /\ clast' = [ClientIdle("timer") EXCEPT !.tries = @ + 1]
  /\ UNCHANGED <<players, food, nextPlayerId, nextFoodId, ticks, wire, last, eaten,
                 received, scene, snake, toClient, toServer>>

(***************************************************************************)
(* The socket connect() created fails to open.  ws.onerror rejects the     *)
(* promise of connect(): the catch of attemptReconnect doubles the delay   *)
(* up to 10000 ms, the catch of setupNetworking only reports.  The browser *)
(* then closes the socket: ws.onclose, GameScene's 'disconnected' handler  *)
(* and attemptReconnect.                                                   *)
(***************************************************************************)
ConnectFails ==
  /\ net.pending \in {"connect", "reconnect"}
  /\ LET rejected == IF net.pending = "reconnect"
                     THEN [net EXCEPT !.reconnectDelay = Backoff(@)]
                     ELSE net
     IN /\ net' = OnClose(rejected)
        /\ clast' = [ClientIdle("failed") EXCEPT
                       !.terminal = IF GivesUp(rejected) THEN @ + 1 ELSE @]
  /\ scene' = OnDisconnected(scene)
  /\ UNCHANGED <<players, food, nextPlayerId, nextFoodId, ticks, wire, last, eaten,
                 received, snake, toClient, toServer>>

(***************************************************************************)
(* ws.onmessage: NetClient.handleMessage and the GameScene handlers.       *)
(***************************************************************************)
\* 'hello': handleHello, then GameScene's 'connected' handler
OnHello(body) ==
  /\ net' = [net EXCEPT !.playerId = body.playerId]
  /\ scene' = [scene EXCEPT !.playerId = body.playerId,
                            !.isConnected = TRUE,
                            !.hasReceivedInitialFood = FALSE,
                            !.networkFood = <<>>]
  /\ snake' = NewSnake(body.spawnPosition)
  /\ clast' = ClientIdle("hello")

\* 'state': GameScene's 'stateUpdate' handler
OnState(body) ==
  LET local == LocalPlayer(body, scene.playerId)
      me == CHOOSE p \in local : TRUE
      applies == /\ scene.playerId # 0
                 /\ snake.exists
                 /\ local # {}
                 /\ Len(me.segments) > 0
      r == IF applies
           THEN HandleServerLengthChange(scene, snake, me.length)
           ELSE [scene |-> scene, snake |-> snake, grows |-> 0, shrinks |-> 0,
                 baselined |-> FALSE]
  IN /\ scene' = [r.scene EXCEPT
                    !.hasReceivedInitialFood = TRUE,
                    !.networkFood = IF scene.hasReceivedInitialFood
                                    THEN @ ELSE UpdateNetworkFood(body.food)]
     /\ snake' = r.snake
     /\ clast' = [ClientIdle("state") EXCEPT
                    !.reconciled = applies,
                    !.serverLength = IF applies THEN me.length ELSE 0,
                    !.lastKnown = scene.lastKnownServerLength,
                    !.grows = r.grows,
                    !.shrinks = r.shrinks,
                    !.baseline = IF r.baselined THEN me.length ELSE @,
                    !.grown = IF r.baselined THEN 0 ELSE @ + r.grows,
                    !.shrunk = IF r.baselined THEN 0 ELSE @ + r.shrinks]
     /\ UNCHANGED net

\* 'food': GameScene's 'foodUpdate' handler
OnFood(body) ==
  /\ scene' = [scene EXCEPT
                 !.networkFood = IF body.action = "spawn"
                                 THEN AddNetworkFood(@, body.food)
                                 ELSE RemoveNetworkFood(@, {body.food.id})]
  /\ clast' = ClientIdle("food")
  /\ UNCHANGED <<net, snake>>

\* 'food_eaten': GameScene's 'foodEaten' handler
OnFoodEaten(body) ==
  /\ scene' = [scene EXCEPT
                 !.predictedEatenFood = @ \ {body.foodId},
                 !.networkFood = RemoveNetworkFood(@, {body.foodId})]
  /\ clast' = ClientIdle("food_eaten")
  /\ UNCHANGED <<net, snake>>

\* 'spawn' and 'die' concern the remote players only
OnRemote(type) ==
  /\ clast' = ClientIdle(type)
  /\ UNCHANGED <<net, scene, snake>>

ClientReceive ==
  /\ toClient # <<>>
  /\ LET m == Head(toClient)
     IN CASE m.type = "hello" -> OnHello(m.body)
          [] m.type = "state" -> OnState(m.body)
          [] m.type = "food" -> OnFood(m.body)
          [] m.type = "food_eaten" -> OnFoodEaten(m.body)
          [] OTHER -> OnRemote(m.type)
  /\ toClient' = Tail(toClient)
  /\ UNCHANGED <<players, food, nextPlayerId, nextFoodId, ticks, wire, last, eaten,
                 received, toServer>>

(***************************************************************************)
(* GameScene.update: one frame.  handleInput, Snake.update, and            *)
(* checkNetworkFoodCollisions.  The frame supplies the elapsed time, the   *)
(* pointer (its button and the angle towards it), where the predicted      *)
(* movement has brought the head, and whether the interval of the          *)
(* collision check has passed.  Frames lie further apart than the 50 ms    *)
(* sendInput waits between two messages, so each input is sent.            *)
(***************************************************************************)
\* elapsed milliseconds of a frame: two boosting frames cost a segment
FrameDeltas == {BOOST_COST_RATE \div 2}
\* the angle from the screen centre to the pointer
PointerAngles == {Angle(0)}
\* where the predicted movement may have brought the head: onto a pellet the
\* client shows, or to the centre of the arena
HeadPositions ==
  {[x |-> scene.networkFood[id].x, y |-> scene.networkFood[id].y] :
     id \in DOMAIN scene.networkFood}
  \cup {[x |-> ARENA_CENTER_X, y |-> ARENA_CENTER_Y]}

\* the pellets the collision check predicts eaten: shown, not yet predicted,
\* the head within FOOD_RADIUS + SNAKE_EAT_RADIUS
PredictedNow(s, sc) ==
  {id \in DOMAIN sc.networkFood \ sc.predictedEatenFood :
     Dist2(s.head.x, s.head.y, sc.networkFood[id].x, sc.networkFood[id].y)
       <= Sq(FOOD_RADIUS + SNAKE_EAT_RADIUS)}

\* sendEatAttempt for each pellet, in the order of the map
EatAttemptsFor(ids, ws) ==
  LET order == Ascending(ids)
  IN [k \in 1..Len(order) |-> [type |-> "eat_attempt", from |-> ws, foodId |-> order[k],
                                angle |-> Angle(0), throttle |-> 0]]

ClientFrame(delta, isDown, angle, head, checks) ==
  LET steering == scene.isConnected /\ snake.exists
      steered == IF steering THEN SetBoosting(snake, isDown) ELSE snake
      inputs == IF steering /\ net.connected
                THEN << [type |-> "input", from |-> net.ws, foodId |-> 0,
                         angle |-> angle, throttle |-> IF isDown THEN 1 ELSE 0] >>
                ELSE <<>>
      moved == IF snake.exists THEN SnakeUpdate(steered, delta, head) ELSE snake
      hits == IF snake.exists /\ checks /\ moved.segments # 0
              THEN PredictedNow(moved, scene) ELSE {}
      attempts == IF net.connected THEN EatAttemptsFor(hits, net.ws) ELSE <<>>
  IN /\ snake' = moved
     /\ scene' = [scene EXCEPT !.predictedEatenFood = @ \cup hits,
                               !.networkFood = RemoveNetworkFood(@, hits)]
     /\ toServer' = toServer \o inputs \o attempts
     /\ Len(toServer') <= MaxInFlight
     /\ clast' = [ClientIdle("frame") EXCEPT
                    !.predicted = hits,
                    !.reached = snake.exists /\ ReachesCost(steered, delta),
                    !.throttle = IF inputs = <<>> THEN -1 ELSE inputs[1].throttle,
                    !.boosting = inputs # <<>> /\ steered.isBoosting]
     /\ UNCHANGED <<players, food, nextPlayerId, nextFoodId, ticks, wire, last, eaten,
                    received, net, toClient>>

(***************************************************************************)
(* The server handles the next message of the client's socket.             *)
(***************************************************************************)
ServerReceive ==
  /\ toServer # <<>>
  /\ LET m == Head(toServer)
     IN IF m.type = "input"
        THEN Input(m.from, m.angle, m.throttle)
        ELSE \E c \in ReplacementDraws(m.from, m.foodId) :
               /\ HandleEatAttempt(m.from, m.foodId, c)
               /\ UNCHANGED <<nextPlayerId, ticks>>
  /\ toServer' = Tail(toServer)
  /\ toClient' = toClient \o ForClient(wire', net.ws)
  /\ Len(toClient') <= MaxInFlight
  /\ UNCHANGED <<net, scene, snake, clast>>

(***************************************************************************)
(* The game loop runs; its broadcasts reach the client's socket.           *)
(***************************************************************************)
ServerTick(deltaTime) ==
  /\ Tick(deltaTime)
  /\ toClient' = toClient \o ForClient(wire', net.ws)
  /\ Len(toClient') <= MaxInFlight
  /\ UNCHANGED <<net, scene, snake, toServer, clast>>

(***************************************************************************)
(* The socket closes: the server's 'close' handler, the client's           *)
(* ws.onclose, GameScene's 'disconnected' handler and attemptReconnect.    *)
(* What was in flight is lost.                                             *)
(***************************************************************************)
SocketClosed ==
  /\ net.ws # 0
  /\ Close(net.ws)
  /\ net' = OnClose(net)
  /\ scene' = OnDisconnected(scene)
  /\ toClient' = <<>>
  /\ toServer' = <<>>
  /\ clast' = [ClientIdle("disconnected") EXCEPT
                 !.terminal = IF GivesUp(net) THEN @ + 1 ELSE @]
  /\ UNCHANGED snake

ClientNext ==
  \/ \E d \in SpawnDirs, r \in SpawnRadii, h \in SpawnHeadings :
       ClientConnect(d, r, h) /\ UNCHANGED oldNet
  \/ ClientReceive /\ UNCHANGED oldNet
  \/ \E delta \in FrameDeltas, isDown \in BOOLEAN, angle \in PointerAngles,
        head \in HeadPositions, checks \in BOOLEAN :
       ClientFrame(delta, isDown, angle, head, checks) /\ UNCHANGED oldNet
  \/ ServerReceive /\ UNCHANGED oldNet
  \/ \E deltaTime \in DeltaTimes : ServerTick(deltaTime) /\ UNCHANGED oldNet
  \/ SocketClosed /\ UNCHANGED oldNet
  \/ TimerFires /\ UNCHANGED oldNet

ClientSpec == Init /\ [][ClientNext]_vars

(***************************************************************************)
(* The client with a server that is not always reachable: a connect may    *)
(* fail.  The player does not steer, so no frame sends anything.           *)
(***************************************************************************)
ReconnectNext ==
  \/ \E d \in SpawnDirs, r \in SpawnRadii, h \in SpawnHeadings :
       ClientConnect(d, r, h) /\ UNCHANGED oldNet
  \/ ClientReceive /\ UNCHANGED oldNet
  \/ \E deltaTime \in DeltaTimes : ServerTick(deltaTime) /\ UNCHANGED oldNet
  \/ SocketClosed /\ UNCHANGED oldNet
  \/ TimerFires /\ UNCHANGED oldNet
  \/ ConnectFails /\ UNCHANGED oldNet

ReconnectSpec == Init /\ [][ReconnectNext]_vars

(***************************************************************************)
(* GameScene.restartGame, on the 'restartGame' event of the UIScene:       *)
(* netClient.disconnect(), snake.destroy(), clearNetworkFood(), then       *)
(* setupNetworking(), which creates a NetClient and connects it.           *)
(* disconnect() closes the socket and forgets it but leaves its onclose    *)
(* handler, and the handlers GameScene registered on the NetClient, in     *)
(* place.  What was in flight on the socket is lost.                       *)
(***************************************************************************)
\* NetClient.disconnect on the NetClient n; a timer already set stays set
Disconnect(n) ==
  [n EXCEPT !.ws = 0, !.connected = FALSE, !.playerId = 0,
            !.pending = IF n.pending = "timer" THEN "timer" ELSE "none"]

RestartGame ==
  /\ oldNet.restarts < MaxRestarts
  /\ oldNet' = [exists |-> TRUE,
                client |-> Disconnect(net),
                closing |-> IF net.ws # 0 THEN "open"
                            ELSE IF net.pending \in {"connect", "reconnect"}
                            THEN net.pending ELSE "none",
                session |-> net.ws,
                disconnected |-> 0,
                scheduled |-> 0,
                restarts |-> oldNet.restarts + 1]
  /\ net' = [NewNetClient EXCEPT !.pending = "connect"]
  /\ snake' = IF snake.exists THEN [snake EXCEPT !.segments = 0] ELSE snake
  /\ scene' = [scene EXCEPT !.networkFood = <<>>]
  /\ toClient' = <<>>
  /\ toServer' = <<>>
  /\ clast' = ClientIdle("restart")
  /\ UNCHANGED <<players, food, nextPlayerId, nextFoodId, ticks, wire, last, eaten,
                 received>>

(***************************************************************************)
(* The socket disconnect() closed finishes closing: the server's 'close'   *)
(* handler when the socket was open; for a socket that was still           *)
(* connecting ws.onerror first (a reconnect's catch doubles the delay);    *)
(* then ws.onclose of the old NetClient: GameScene's 'disconnected'        *)
(* handler and attemptReconnect.                                           *)
(***************************************************************************)
OldSocketCloses ==
  /\ oldNet.closing # "none"
  /\ LET rejected == IF oldNet.closing = "reconnect"
                     THEN [oldNet.client EXCEPT !.reconnectDelay = Backoff(@)]
                     ELSE oldNet.client
     IN oldNet' = [oldNet EXCEPT
                     !.client = OnClose(rejected),
                     !.closing = "none",
                     !.session = 0,
                     !.disconnected = @ + 1,
                     !.scheduled = IF GivesUp(rejected) THEN @ ELSE @ + 1]
  /\ scene' = OnDisconnected(scene)
  /\ clast' = ClientIdle("disconnected")
  /\ IF oldNet.closing = "open"
     THEN /\ Close(oldNet.session)
          /\ toClient' = toClient \o ForClient(wire', net.ws)
          /\ Len(toClient') <= MaxInFlight
     ELSE UNCHANGED <<players, food, nextPlayerId, nextFoodId, ticks, wire, last,
                      eaten, received, toClient>>
  /\ UNCHANGED <<net, snake, toServer>>

\* the timer the old NetClient set fires: connect()
OldTimerFires ==
  /\ oldNet.client.pending = "timer"
  /\ oldNet' = [oldNet EXCEPT !.client.pending = "reconnect",
                              !.client.timerDelay = 0]
  /\ UNCHANGED <<players, food, nextPlayerId, nextFoodId, ticks, wire, last, eaten,
                 received, net, scene, snake, toClient, toServer, clast>>

\* the socket of the old NetClient opens: the server's 'connection' handler
\* and ws.onopen.  What the server sends on that socket is not followed
OldConnect(d, r, h) ==
  /\ oldNet.client.pending = "reconnect"
  /\ oldNet.closing = "none"
  /\ Connection(d, r, h)
  /\ oldNet' = [oldNet EXCEPT !.client.ws = nextPlayerId,
                              !.client.connected = TRUE,
                              !.client.reconnectAttempts = 0,
                              !.client.reconnectDelay = 1000,
                              !.client.pending = "none"]
  /\ toClient' = toClient \o ForClient(wire', net.ws)
  /\ Len(toClient') <= MaxInFlight
  /\ UNCHANGED <<net, scene, snake, toServer, clast>>

\* the client whose player restarts the game
RestartNext ==
  \/ \E d \in SpawnDirs, r \in SpawnRadii, h \in SpawnHeadings :
       ClientConnect(d, r, h) /\ UNCHANGED oldNet
  \/ ClientReceive /\ UNCHANGED oldNet
  \/ \E deltaTime \in DeltaTimes : ServerTick(deltaTime) /\ UNCHANGED oldNet
  \/ SocketClosed /\ UNCHANGED oldNet
  \/ TimerFires /\ UNCHANGED oldNet
  \/ RestartGame
  \/ OldSocketCloses
  \/ OldTimerFires
  \/ \E d \in SpawnDirs, r \in SpawnRadii, h \in SpawnHeadings : OldConnect(d, r, h)

RestartSpec == Init /\ [][RestartNext]_vars

(***************************************************************************)
(* Vocabulary of the properties.                                           *)
(***************************************************************************)
\* the messages of type t in a sequence of messages
OfType(msgs, t) == {k \in 1..Len(msgs) : msgs[k].type = t}

\* the 'food' messages with the given action in a sequence of messages
FoodUpdates(msgs, action) ==
  {k \in OfType(msgs, "food") : msgs[k].body.action = action}

(***************************************************************************)
(* C1.  Two connected players claim the same live pellet, both heads in    *)
(* eating range: whatever the order and whatever happens in between, the   *)
(* first claim handled is accepted, with exactly one food_eaten broadcast  *)
(* for that food id; a later claim for it is rejected and broadcasts       *)
(* nothing; so the pellet has exactly one eater and one food_eaten.        *)
(***************************************************************************)
C1_ExactlyOneClaimAccepted ==
  /\ \A f \in DOMAIN eaten : Len(eaten[f].by) = 1 /\ eaten[f].msgs = 1
  /\ (last.op = "eat_attempt" /\ last.known /\ last.within) =>
       IF last.live
       THEN /\ last.accepted
            /\ Cardinality(OfType(wire, "food_eaten")) = 1
            /\ \A k \in OfType(wire, "food_eaten") :
                 wire[k].body = [foodId |-> last.foodId, by |-> last.player]
       ELSE ~last.accepted /\ wire = <<>>

\* a second player, in range of a pellet another player has eaten, claimed it
C1_Witness ==
  /\ last.op = "eat_attempt"
  /\ ~last.accepted
  /\ last.within
  /\ last.foodId \in DOMAIN eaten
  /\ last.player \in DOMAIN players
  /\ eaten[last.foodId].by[1] \in DOMAIN players
  /\ eaten[last.foodId].by[1] # last.player
  /\ HeadWithin(players[eaten[last.foodId].by[1]], eaten[last.foodId].item, EatRange)

(***************************************************************************)
(* C2.  Replay: once a food id has been accepted as eaten, every later     *)
(* claim for it, by any player, is rejected, and the id is never live in   *)
(* the pool again.                                                         *)
(***************************************************************************)
C2_EatenStaysEaten ==
  /\ \A f \in DOMAIN eaten : f \notin DOMAIN food
  /\ (last.op = "eat_attempt" /\ last.foodId \in DOMAIN eaten /\ last.accepted) =>
       eaten[last.foodId].by = <<last.player>>
  /\ (last.op = "eat_attempt" /\ ~last.live) => ~last.accepted

\* a claim for an eaten pellet was replayed by the player who ate it
C2_Witness ==
  /\ last.op = "eat_attempt"
  /\ ~last.accepted
  /\ last.foodId \in DOMAIN eaten
  /\ eaten[last.foodId].by = <<last.player>>
  /\ last.player \in DOMAIN players
  /\ last.within

(***************************************************************************)
(* C3.  validateEatAttempt succeeds exactly when the food id is live and   *)
(* the distance from the claimant's head to the pellet is at most          *)
(* FOOD_RADIUS + SNAKE_EAT_RADIUS = 40, inclusive.                         *)
(***************************************************************************)
C3_AcceptedIffLiveAndInRange ==
  (last.op = "eat_attempt" /\ last.known) =>
    (last.accepted <=> last.live /\ last.within)

\* a claim was accepted with the head at distance exactly 40 from the pellet
C3_Witness ==
  /\ last.op = "eat_attempt"
  /\ last.accepted
  /\ last.player \in DOMAIN players
  /\ LET h == players[last.player].segments[1]
         f == eaten[last.foodId].item
     IN Dist2(h.x, h.y, f.x, f.y) = EatRange * EatRange

(***************************************************************************)
(* C4.  An avatar's score and length change only through an accepted eat   *)
(* claim of that same avatar, and then by exactly the eaten pellet's score *)
(* and growthAmount; nothing else changes them, so both never decrease.    *)
(***************************************************************************)
C4_GrowthOnlyByOwnAcceptedClaim ==
  [][\A p \in DOMAIN players \cap DOMAIN players' :
       /\ players'[p].score >= players[p].score
       /\ players'[p].length >= players[p].length
       /\ (players'[p].score # players[p].score \/ players'[p].length # players[p].length) =>
            /\ last'.op = "eat_attempt"
            /\ last'.accepted
            /\ last'.player = p
            /\ last'.foodId \in DOMAIN food
            /\ players'[p].score = players[p].score + food[last'.foodId].score
            /\ players'[p].length = players[p].length + food[last'.foodId].growthAmount]_vars

\* an avatar has just been awarded the score and growth of a large pellet
\* while another avatar is registered
C4_Witness ==
  /\ last.op = "eat_attempt"
  /\ last.accepted
  /\ last.player \in DOMAIN players
  /\ eaten[last.foodId].item.type = "large"
  /\ players[last.player].score >= 25
  /\ \E q \in DOMAIN players : q # last.player

(***************************************************************************)
(* C5.  With the pool at capacity, an accepted claim leaves the pool at    *)
(* exactly MAX_FOOD pellets, without the eaten id and with exactly one new *)
(* pellet of a different id, and sends exactly one 'food' despawn (for the *)
(* eaten pellet) and exactly one 'food' spawn (for the replacement).       *)
(***************************************************************************)
C5_EatenPelletReplaced ==
  [][(last'.op = "eat_attempt" /\ last'.accepted /\ Cardinality(DOMAIN food) = MAX_FOOD) =>
       LET born == DOMAIN food' \ DOMAIN food
       IN /\ Cardinality(DOMAIN food') = MAX_FOOD
          /\ last'.foodId \in DOMAIN food
          /\ last'.foodId \notin DOMAIN food'
          /\ DOMAIN food \ DOMAIN food' = {last'.foodId}
          /\ Cardinality(born) = 1
          /\ last'.foodId \notin born
          /\ Cardinality(FoodUpdates(wire', "despawn")) = 1
          /\ \A k \in FoodUpdates(wire', "despawn") :
               wire'[k].body.food = food[last'.foodId]
          /\ Cardinality(FoodUpdates(wire', "spawn")) = 1
          /\ \A k \in FoodUpdates(wire', "spawn") :
               /\ wire'[k].body.food.id \in born
               /\ wire'[k].body.food = food'[wire'[k].body.food.id]]_vars

\* a claim has just been accepted and the pool is at capacity
C5_Witness ==
  /\ last.op = "eat_attempt"
  /\ last.accepted
  /\ Cardinality(DOMAIN food) = MAX_FOOD
  /\ Cardinality(FoodUpdates(wire, "spawn")) = 1

(***************************************************************************)
(* C6.  The number of live pellets never exceeds the configured maximum,   *)
(* and when maintainFoodCount has returned (in a tick) it equals the       *)
(* maximum.                                                                *)
(***************************************************************************)
C6_PoolCapped ==
  /\ Cardinality(DOMAIN food) <= MAX_FOOD
  /\ last.op = "tick" => Cardinality(DOMAIN food) = MAX_FOOD

\* a tick has run its food maintenance after pellets were eaten
C6_Witness ==
  /\ last.op = "tick"
  /\ DOMAIN eaten # {}
  /\ Cardinality(DOMAIN food) = MAX_FOOD

(***************************************************************************)
(* C7.  A rejected eat claim (unknown or consumed id, claimant too far or  *)
(* not registered) sends no message and leaves every avatar and the food   *)
(* pool as they were.                                                      *)
(***************************************************************************)
C7_RejectedClaimChangesNothing ==
  [][(last'.op = "eat_attempt" /\ ~last'.accepted) =>
       /\ wire' = <<>>
       /\ players' = players
       /\ food' = food
       /\ nextFoodId' = nextFoodId]_vars

\* a registered claimant too far from a live pellet has just been rejected
C7_Witness ==
  /\ last.op = "eat_attempt"
  /\ ~last.accepted
  /\ last.known
  /\ last.live
  /\ ~last.within

(***************************************************************************)
(* C8.  Arena containment: every registered avatar is at distance at most  *)
(* ARENA_RADIUS from the arena centre, from addPlayer on and after every   *)
(* tick.                                                                   *)
(***************************************************************************)
C8_InsideArena ==
  \A p \in DOMAIN players :
    Dist2(players[p].x, players[p].y, ARENA_CENTER_X, ARENA_CENTER_Y)
      <= ARENA_RADIUS * ARENA_RADIUS

\* a tick has held back an avatar whose move would have left the arena
C8_Witness ==
  /\ last.op = "tick"
  /\ \E p \in last.blocked \cap DOMAIN players : players[p].angle.fin

(***************************************************************************)
(* C9.  For every registered avatar 1 <= segments.length <= length, after  *)
(* joins, ticks, inputs and accepted or rejected claims.                   *)
(***************************************************************************)
C9_ChainWithinLength ==
  \A p \in DOMAIN players :
    /\ 1 <= Len(players[p].segments)
    /\ Len(players[p].segments) <= players[p].length

\* a tick has run for an avatar that has grown and whose chain is full
C9_Witness ==
  /\ last.op = "tick"
  /\ \E p \in DOMAIN players :
       /\ players[p].length > SNAKE_INITIAL_LENGTH
       /\ Len(players[p].segments) = players[p].length

(***************************************************************************)
(* C10.  In every state message the game loop broadcasts, every avatar's   *)
(* segment chain is as long as its length, whatever was eaten between two  *)
(* ticks and whether the avatar moves or is held back.                     *)
(***************************************************************************)
C10_SnapshotChainMatchesLength ==
  last.op = "tick" =>
    \A k \in OfType(wire, "state") :
      \A i \in 1..Len(wire[k].body.players) :
        Len(wire[k].body.players[i].segments) = wire[k].body.players[i].length

(***************************************************************************)
(* C11.  The heading stored for an avatar always lies in (-PI, PI],        *)
(* whatever headings joins draw and clients send.                          *)
(***************************************************************************)
\* the angle a lies in (-PI, PI]; atan(4/3) lies strictly between 0 and PI/2
Normalised(a) ==
  /\ a.fin
  /\ IF a.off = 0 THEN -2 < a.q /\ a.q <= 2 ELSE -2 <= a.q /\ a.q <= 1

C11_HeadingNormalised ==
  \A p \in DOMAIN players : Normalised(players[p].angle)

(***************************************************************************)
(* C12.  An input message overwrites the target heading and the boosting   *)
(* flag of its sender with the values of that message, whatever was stored *)
(* before, and changes nothing else; an input for an id that is not        *)
(* registered changes nothing; no other handler changes the target heading *)
(* or the boosting flag, so a tick finds those of the latest input.        *)
(***************************************************************************)
C12_LastInputWins ==
  [][/\ last'.op = "input" =>
          /\ food' = food
          /\ wire' = <<>>
          /\ DOMAIN players' = DOMAIN players
          /\ \A q \in DOMAIN players \ {last'.player} : players'[q] = players[q]
          /\ last'.known <=> last'.player \in DOMAIN players
          /\ last'.known =>
               LET old == players[last'.player]
                   new == players'[last'.player]
               IN /\ new.targetAngle = last'.input.angle
                  /\ new.isBoosting = (last'.input.throttle > 0)
                  /\ new.lastInput = last'.input
                  /\ new = [old EXCEPT !.targetAngle = new.targetAngle,
                                       !.isBoosting = new.isBoosting,
                                       !.lastInput = new.lastInput]
     /\ last'.op # "input" =>
          \A q \in DOMAIN players \cap DOMAIN players' :
            /\ players'[q].targetAngle = players[q].targetAngle
            /\ players'[q].isBoosting = players[q].isBoosting]_vars

\* an avatar that a tick moved under an earlier, boosting input has just
\* received an input without throttle, while another avatar is registered
C12_Witness ==
  /\ last.op = "input"
  /\ last.known
  /\ last.input.throttle = 0
  /\ last.player \in DOMAIN players
  /\ players[last.player].x < ARENA_CENTER_X
  /\ ~players[last.player].isBoosting
  /\ \E q \in DOMAIN players : q # last.player

(***************************************************************************)
(* C13.  A run of the game loop is one step: it sends the spawn broadcasts *)
(* of the food maintenance first and then exactly one state snapshot, as   *)
(* its last message; the snapshot shows every avatar as the tick left it   *)
(* and the pool as the maintenance left it; nothing else is sent.          *)
(***************************************************************************)
C13_TickOrder ==
  last.op = "tick" =>
    /\ Len(wire) >= 1
    /\ Cardinality(OfType(wire, "state")) = 1
    /\ wire[Len(wire)].type = "state"
    /\ \A k \in 1..(Len(wire) - 1) :
         /\ wire[k].type = "food"
         /\ wire[k].body.action = "spawn"
         /\ \E i \in 1..Len(wire[Len(wire)].body.food) :
              wire[Len(wire)].body.food[i] = wire[k].body.food
    /\ LET snapshot == wire[Len(wire)].body
       IN /\ \A i \in 1..Len(snapshot.players) :
               /\ snapshot.players[i].id \in DOMAIN players
               /\ snapshot.players[i].x = players[snapshot.players[i].id].x
               /\ snapshot.players[i].y = players[snapshot.players[i].id].y
               /\ snapshot.players[i].segments = players[snapshot.players[i].id].segments
          /\ Len(snapshot.players) = Cardinality(DOMAIN players)
          /\ Len(snapshot.food) = Cardinality(DOMAIN food)

\* a tick has moved one of two registered avatars after a pellet was eaten
C13_Witness ==
  /\ last.op = "tick"
  /\ Cardinality(DOMAIN players) = 2
  /\ DOMAIN players \ last.blocked # {}
  /\ DOMAIN eaten # {}

(***************************************************************************)
(* C14.  Every state snapshot lists exactly the registered avatars, each   *)
(* once and with its current id, position, heading, length, segment chain, *)
(* boost flag and score, and exactly the live pellets, each once.          *)
(***************************************************************************)
C14_SnapshotIsTheWorld ==
  \A k \in OfType(wire, "state") :
    LET b == wire[k].body
    IN /\ Len(b.players) = Cardinality(DOMAIN players)
       /\ {b.players[i].id : i \in 1..Len(b.players)} = DOMAIN players
       /\ \A i \in 1..Len(b.players) :
            LET pl == players[b.players[i].id]
            IN /\ b.players[i].x = pl.x
               /\ b.players[i].y = pl.y
               /\ b.players[i].angle = pl.angle
               /\ b.players[i].length = pl.length
               /\ b.players[i].segments = pl.segments
               /\ b.players[i].isBoosting = pl.isBoosting
               /\ b.players[i].score = pl.score
       /\ Len(b.food) = Cardinality(DOMAIN food)
       /\ {b.food[i].id : i \in 1..Len(b.food)} = DOMAIN food
       /\ \A i \in 1..Len(b.food) : b.food[i] = food[b.food[i].id]

\* a snapshot was sent after a player has left and a pellet has been eaten,
\* with a player registered
C14_Witness ==
  /\ OfType(wire, "state") # {}
  /\ DOMAIN players # {}
  /\ Cardinality(DOMAIN players) < nextPlayerId - 1
  /\ DOMAIN eaten # {}

C17_ErrorTakesDisconnectPath ==
  last.op = "error" =>
    /\ last.player \notin DOMAIN players
    /\ Cardinality(OfType(wire, "die")) = 1

(***************************************************************************)
(* C18.  A message that does not parse, or whose type is not input or      *)
(* eat_attempt, is dropped: nothing is sent, and the registry (the         *)
(* connection included), the avatars and the food pool stay as they were,  *)
(* so the connection's next message is handled as if there had been none.  *)
(***************************************************************************)
C18_MalformedDropped ==
  [][last'.op = "dropped" =>
       /\ wire' = <<>>
       /\ players' = players
       /\ food' = food
       /\ nextFoodId' = nextFoodId
       /\ nextPlayerId' = nextPlayerId
       /\ received' = received]_vars

\* a message of a registered connection whose avatar has grown and holds an
\* input was dropped
C18_Witness ==
  /\ last.op = "dropped"
  /\ last.known
  /\ \E p \in DOMAIN players :
       /\ players[p].ws = "OPEN"
       /\ players[p].length > SNAKE_INITIAL_LENGTH
       /\ players[p].isBoosting


(***************************************************************************)
(* WideSpec: the server with one connection, and with inputs, elapsed      *)
(* times, spawn points and pellet positions drawn from the wider sets.     *)
(***************************************************************************)
\* an eat_attempt of a registered player for a live pellet; the replacement
\* pellet is drawn from the wider set
WideEatAttempt ==
  \E playerId \in DOMAIN players, foodId \in DOMAIN food :
    \E c \in WideFoodSpawnChoices :
      /\ HandleEatAttempt(playerId, foodId, c)
      /\ UNCHANGED <<nextPlayerId, ticks>>

WideNext ==
  \/ \E d \in SpawnDirs, r \in WideSpawnRadii, h \in SpawnHeadings :
       nextPlayerId <= WidePlayers /\ Connection(d, r, h) /\ UNCHANGED cvars
  \/ \E playerId \in DOMAIN players, m \in WideInputMessages :
       Input(playerId, m.angle, m.throttle) /\ UNCHANGED cvars
  \/ WideEatAttempt /\ UNCHANGED cvars
  \/ \E playerId \in DOMAIN players : Close(playerId) /\ UNCHANGED cvars
  \/ \E deltaTime \in WideDeltaTimes : Tick(deltaTime) /\ UNCHANGED cvars

WideSpec == Init /\ [][WideNext]_vars

(***************************************************************************)
(* Claims about the client, checked under ClientSpec.                      *)
(***************************************************************************)
\* C19: when a state snapshot declares for the local avatar a length that
\* exceeds the last known server length by d > 0, handleServerLengthChange
\* calls grow() exactly d times and shrink() not at all, so the snake has d
\* segments more than before; a frame, which is where the client predicts an
\* eat and sends its eat_attempt, never adds a segment; and over the run the
\* calls of grow() less those of shrink() made since the baseline was taken
\* add up to the growth of the server's length since, so a growth the client
\* predicted and the server validated is applied once
C19_ReconcileAppliesDelta ==
  /\ (clast.op = "state" /\ clast.reconciled /\ clast.lastKnown # 0
        /\ clast.serverLength > clast.lastKnown)
       => /\ clast.grows = clast.serverLength - clast.lastKnown
          /\ clast.shrinks = 0
          /\ snake.segments = clast.segments + (clast.serverLength - clast.lastKnown)
  /\ clast.op = "frame" => snake.segments <= clast.segments
  /\ scene.lastKnownServerLength # 0
       => clast.baseline + clast.grown - clast.shrunk = scene.lastKnownServerLength

\* the client has applied a snapshot that declares two segments more than the
\* last known length, after the server accepted an eat_attempt of the client
\* (in ClientSpec every eat_attempt is one the client predicted)
C19_Witness ==
  /\ clast.op = "state"
  /\ clast.reconciled
  /\ clast.lastKnown # 0
  /\ clast.serverLength - clast.lastKnown >= 2
  /\ \E id \in DOMAIN eaten : eaten[id].by = <<net.ws>>

\* C20: after the client has applied a state snapshot, the number of segments
\* of the local snake equals the length the snapshot declares for the local
\* avatar
C20_LengthMatchesSnapshot ==
  (clast.op = "state" /\ clast.reconciled) => snake.segments = clast.serverLength

\* C21: when the client has predicted a pellet eaten and hidden it, the
\* server has handled the eat_attempt without consuming the pellet (it is
\* live in the pool) and then run a tick, and the client has processed the
\* state snapshot of that tick with nothing left in flight, the pellet is in
\* the client's food mirror again
C21_RejectedPelletReappears ==
  (/\ clast.op = "state"
   /\ last.op = "tick"
   /\ net.ws \in DOMAIN players
   /\ toClient = <<>>
   /\ toServer = <<>>)
    => \A id \in scene.predictedEatenFood \cap DOMAIN food :
         id \in DOMAIN scene.networkFood

\* C31: the predictive Snake never has fewer than MIN_SNAKE_LENGTH segments;
\* an update does not move it at boost speed (its isBoosting flag is not set
\* when the speed is taken) while it has MIN_SNAKE_LENGTH segments or fewer;
\* an update in which the boost accumulator reaches BOOST_COST_RATE takes
\* exactly one segment and leaves the accumulator at 0
C31_BoostFloor ==
  snake.exists =>
    /\ snake.segments >= MIN_SNAKE_LENGTH
    /\ (clast.op = "frame" /\ snake.isBoosting) => snake.segments > MIN_SNAKE_LENGTH
    /\ (clast.op = "frame" /\ clast.reached)
         => /\ snake.segments = clast.segments - 1
            /\ snake.boostTime = 0

\* C37: the first state snapshot the client processes after a hello (no
\* snapshot has been processed since: hasReceivedInitialFood is still false)
\* only records the server length as the baseline: it calls neither grow()
\* nor shrink() and leaves the snake as it is
C37_FirstSnapshotOnlyBaselines ==
  [][(clast'.op = "state" /\ ~scene.hasReceivedInitialFood /\ clast'.reconciled)
       => /\ clast'.grows = 0
          /\ clast'.shrinks = 0
          /\ snake' = snake
          /\ scene'.lastKnownServerLength = clast'.serverLength]_vars

\* C36: the throttle of an input message is the boost state of the local
\* snake: when handleInput sends throttle 1 the snake's isBoosting flag is
\* set, and when the snake has refused to boost the throttle sent is 0
C36_ThrottleIsBoostState ==
  (clast.op = "frame" /\ clast.throttle # -1)
    => (clast.throttle = 1 <=> clast.boosting)

\* C40: one run of checkNetworkFoodCollisions marks at most one pellet as
\* predicted eaten (and sends at most one eat_attempt), and no pellet id has
\* two eat_attempts in flight
C40_OneEatAttemptPerCheck ==
  /\ clast.op = "frame" => Cardinality(clast.predicted) <= 1
  /\ \A j, k \in OfType(toServer, "eat_attempt") :
       toServer[j].foodId = toServer[k].foodId => j = k

\* C39: once the client has processed the first state snapshot of its
\* session, whenever every message the server sent has been delivered and no
\* eat_attempt of the client is on its way to the server, the pellets the
\* client shows are the live pellets of the server's pool
C39_FoodMirrorConverges ==
  (/\ scene.hasReceivedInitialFood
   /\ scene.isConnected
   /\ net.ws \in DOMAIN players
   /\ toClient = <<>>
   /\ OfType(toServer, "eat_attempt") = {})
    => DOMAIN scene.networkFood = DOMAIN food

(***************************************************************************)
(* Claims about reconnection, checked under ReconnectSpec.                 *)
(***************************************************************************)
\* C22: reconnection is bounded.  Since the last open of a socket the timer
\* of attemptReconnect has made at most maxReconnectAttempts connects; when
\* the last of them has failed the terminal error 'Failed to reconnect to
\* server' has been emitted, once, and from then on the NetClient has no
\* socket, no timer set and no socket connecting.
C22_ReconnectionBounded ==
  /\ clast.tries <= maxReconnectAttempts
  /\ net.reconnectAttempts <= maxReconnectAttempts
  /\ (clast.tries = maxReconnectAttempts /\ net.pending = "none" /\ net.ws = 0)
       => clast.terminal = 1
  /\ clast.terminal > 0
       => /\ clast.terminal = 1
          /\ clast.tries = maxReconnectAttempts
          /\ net.pending = "none"
          /\ net.ws = 0

\* a socket was open and lost, the five reconnection attempts that followed
\* all failed and the NetClient has given up
C22_Witness ==
  /\ clast.op = "failed"
  /\ clast.terminal = 1
  /\ clast.tries = maxReconnectAttempts
  /\ nextPlayerId > 1
  /\ net.pending = "none"

\* the delay before reconnection attempt k: 1000 ms doubled k - 1 times, at
\* most 10000 ms
RECURSIVE DelayBefore(_)
DelayBefore(k) == IF k <= 1 THEN 1000 ELSE Min(2 * DelayBefore(k - 1), 10000)

\* C32: the timer of reconnection attempt k is set with 1000 ms doubled once
\* per failed attempt before it and never with more than 10000 ms; while a
\* socket is open the attempt counter is 0 and the delay 1000 ms.
C32_BackoffDoubles ==
  /\ net.reconnectDelay \in 1000..10000
  /\ net.pending = "timer"
       => /\ net.reconnectAttempts >= 1
          /\ net.timerDelay = DelayBefore(net.reconnectAttempts)
          /\ net.timerDelay <= 10000
  /\ net.ws # 0 => net.reconnectAttempts = 0 /\ net.reconnectDelay = 1000
  /\ clast.op = "open" => net.reconnectAttempts = 0 /\ net.reconnectDelay = 1000

\* after an open and a loss, the timer of the fifth attempt is set, with the
\* capped delay
C32_Witness ==
  /\ net.pending = "timer"
  /\ net.reconnectAttempts = maxReconnectAttempts
  /\ net.timerDelay = 10000
  /\ nextPlayerId > 1

(***************************************************************************)
(* Further claims about the server, checked under Spec.                    *)
(***************************************************************************)
\* the size, score and growth amount the categories stand for
CategoryValues(f) ==
  \/ f.type = "small" /\ f.size = 20 /\ f.score = 10 /\ f.growthAmount = 1
  \/ f.type = "large" /\ f.size = 40 /\ f.score = 25 /\ f.growthAmount = 2

\* C23: a pellet's record (type, size, score, growthAmount among it) never
\* changes while the pellet is live; every spawn event and every snapshot
\* reports the record of the pool, the despawn event of an accepted claim
\* reports the record the pellet had, and the eater is awarded that record's
\* score and growthAmount; every small pellet has (size, score, growth) =
\* (20, 10, 1) and every large one (40, 25, 2)
C23_PelletAttributesFixed ==
  [][/\ \A id \in DOMAIN food \cap DOMAIN food' : food'[id] = food[id]
     /\ \A id \in DOMAIN food : CategoryValues(food[id])
     /\ \A id \in DOMAIN food' : CategoryValues(food'[id])
     /\ \A k \in FoodUpdates(wire', "spawn") :
          /\ wire'[k].body.food.id \in DOMAIN food'
          /\ wire'[k].body.food = food'[wire'[k].body.food.id]
     /\ \A k \in FoodUpdates(wire', "despawn") :
          /\ wire'[k].body.food.id \in DOMAIN food
          /\ wire'[k].body.food = food[wire'[k].body.food.id]
     /\ \A k \in OfType(wire', "state") :
          \A j \in 1..Len(wire'[k].body.food) :
            /\ wire'[k].body.food[j].id \in DOMAIN food'
            /\ wire'[k].body.food[j] = food'[wire'[k].body.food[j].id]
     /\ (last'.op = "eat_attempt" /\ last'.accepted) =>
          /\ last'.foodId \in DOMAIN food
          /\ last'.player \in DOMAIN players
          /\ players'[last'.player].score =
               players[last'.player].score + food[last'.foodId].score
          /\ players'[last'.player].length =
               players[last'.player].length + food[last'.foodId].growthAmount]_vars

\* a large pellet has just been eaten by an avatar that a tick had advanced
\* (its heading is that of its input, which kept it in place), so the
\* snapshot of that tick listed the pellet; its despawn has been sent and a
\* small pellet is live
C23_Witness ==
  /\ last.op = "eat_attempt"
  /\ last.accepted
  /\ ticks >= 1
  /\ last.player \in DOMAIN players
  /\ ~players[last.player].angle.fin
  /\ eaten[last.foodId].item.type = "large"
  /\ Cardinality(FoodUpdates(wire, "despawn")) = 1
  /\ \E id \in DOMAIN food : food[id].type = "small"

\* C27: the handler of an accepted eat_attempt itself emits food_eaten, then
\* the despawn of the eaten pellet, then the spawn of the replacement, and
\* nothing else; the connection handler itself emits the spawn of the new
\* player and the close handler the die of the leaving one; a tick emits
\* none of these: its messages are the spawns of the pellets it created
\* itself and the state snapshot
C27_EventsOutOfBand ==
  /\ (last.op = "eat_attempt" /\ last.accepted) =>
       /\ Len(wire) = 3
       /\ wire[1].type = "food_eaten"
       /\ wire[1].body.foodId = last.foodId
       /\ wire[2].type = "food"
       /\ wire[2].body.action = "despawn"
       /\ wire[2].body.food.id = last.foodId
       /\ wire[3].type = "food"
       /\ wire[3].body.action = "spawn"
       /\ wire[3].body.food.id \in DOMAIN food
  /\ last.op = "connection" =>
       /\ Cardinality(OfType(wire, "spawn")) = 1
       /\ \A k \in OfType(wire, "spawn") : wire[k].body.playerId = last.player
  /\ last.op = "close" =>
       /\ Cardinality(OfType(wire, "die")) = 1
       /\ \A k \in OfType(wire, "die") : wire[k].body.playerId = last.player
  /\ last.op = "tick" =>
       /\ OfType(wire, "food_eaten") = {}
       /\ OfType(wire, "spawn") = {}
       /\ OfType(wire, "die") = {}
       /\ FoodUpdates(wire, "despawn") = {}
       /\ Len(wire) >= 1
       /\ wire[Len(wire)].type = "state"

\* an eat_attempt has just been accepted between two runs of the game loop,
\* with a second player registered to receive the three broadcasts
C27_Witness ==
  /\ last.op = "eat_attempt"
  /\ last.accepted
  /\ ticks >= 1
  /\ ticks < MaxTicks
  /\ Cardinality(DOMAIN players) = 2
  /\ \A k \in 1..Len(wire) : wire[k].to = DOMAIN players

\* C28: an avatar leaves the registry only in the close handler of its own
\* connection; its target heading and boosting flag change only in the
\* handler of an input of its own connection; and every tick advances every
\* registered avatar with the target heading and the flag it has, however
\* long ago they were set
C28_NoIdleEviction ==
  [][/\ \A p \in DOMAIN players \ DOMAIN players' :
          last'.op = "close" /\ last'.player = p
     /\ \A p \in DOMAIN players \cap DOMAIN players' :
          (\/ players'[p].targetAngle # players[p].targetAngle
           \/ players'[p].isBoosting # players[p].isBoosting)
            => last'.op = "input" /\ last'.player = p
     /\ last'.op = "tick" =>
          \A p \in DOMAIN players :
            /\ p \in DOMAIN players'
            /\ players'[p].angle = players[p].targetAngle
            /\ players'[p].speed = IF players[p].isBoosting
                                   THEN (BASE_SPEED * BOOST_MULTIPLIER_X10) \div 10
                                   ELSE BASE_SPEED]_vars

\* the last tick of the run has advanced an avatar that is still boosting
\* towards the heading of an input it sent before an earlier tick moved it,
\* while the other connection has closed
C28_Witness ==
  /\ last.op = "tick"
  /\ ticks = MaxTicks
  /\ nextPlayerId = MaxPlayers + 1
  /\ Cardinality(DOMAIN players) = 1
  /\ \E p \in DOMAIN players :
       /\ players[p].isBoosting
       /\ players[p].angle = players[p].targetAngle
       /\ players[p].x < ARENA_CENTER_X

(***************************************************************************)
(* Claims about single operations of the server, checked under WideSpec.   *)
(***************************************************************************)
\* C24: after updatePlayerInput the avatar's boosting flag is true exactly
\* when the throttle of the input is nonzero, and after a tick the speed of
\* each avatar is BASE_SPEED * BOOST_MULTIPLIER when its flag is set and
\* BASE_SPEED otherwise
C24_BoostIffThrottleNonzero ==
  /\ (last.op = "input" /\ last.known)
       => (players[last.player].isBoosting <=> last.input.throttle # 0)
  /\ last.op = "tick"
       => \A p \in DOMAIN players :
            players[p].speed = IF players[p].isBoosting
                               THEN (BASE_SPEED * BOOST_MULTIPLIER_X10) \div 10
                               ELSE BASE_SPEED

\* where the integration of one tick puts avatar pl: deltaTime / 1000 seconds
\* at 200 px/s, or at 300 px/s when boosting, along its target heading
Integrated(pl, deltaTime) ==
  LET moveDistance == ((IF pl.isBoosting THEN 300 ELSE 200) * deltaTime) \div 1000
  IN [x |-> pl.x + CosTimes(pl.targetAngle, moveDistance),
      y |-> pl.y + SinTimes(pl.targetAngle, moveDistance),
      moveDistance |-> moveDistance]

\* C25: in a tick where the integrated new position of an avatar lies farther
\* than ARENA_RADIUS from the centre, its x and y are left as they were; in a
\* tick where it lies inside the avatar is moved there; either way the avatar
\* stays registered with its score and length
C25_HardStop ==
  [][last'.op = "tick" =>
       \A p \in DOMAIN players :
         LET pl == players[p]
             new == Integrated(pl, last'.deltaTime)
             outside == Dist2(new.x, new.y, ARENA_CENTER_X, ARENA_CENTER_Y)
                          > Sq(ARENA_RADIUS)
         IN /\ p \in DOMAIN players'
            /\ players'[p].score = pl.score
            /\ players'[p].length = pl.length
            /\ pl.targetAngle.fin =>
                 /\ outside => players'[p].x = pl.x /\ players'[p].y = pl.y
                 /\ ~outside => players'[p].x = new.x /\ players'[p].y = new.y]_vars

\* the first tick has left an avatar with a heading where it was, because the
\* new position was outside the arena; another tick can follow
C25_Witness ==
  /\ last.op = "tick"
  /\ ticks = 1
  /\ \E p \in last.blocked :
       /\ p \in DOMAIN players
       /\ players[p].targetAngle.fin
       /\ players[p].isBoosting

\* C26: in one tick the (possibly unchanged) head position of each avatar is
\* pushed to the front of its chain exactly once and entries are popped from
\* the back while the chain is longer than length, so a chain shorter than
\* length grows by exactly one entry
C26_HeadPushedOncePerTick ==
  [][last'.op = "tick" =>
       \A p \in DOMAIN players :
         LET pushed == <<[x |-> players'[p].x, y |-> players'[p].y]>>
                         \o players[p].segments
             kept == IF Len(pushed) > players[p].length
                     THEN SubSeq(pushed, 1, players[p].length)
                     ELSE pushed
         IN /\ p \in DOMAIN players'
            /\ players'[p].segments = kept]_vars

\* C29: every pellet of the pool lies, snapped to the grid as it is, within
\* ARENA_RADIUS - 50 of the arena centre, and both its coordinates are
\* multiples of GRID_SIZE
C29_PelletInsideMargin ==
  \A id \in DOMAIN food :
    /\ Dist2(food[id].x, food[id].y, ARENA_CENTER_X, ARENA_CENTER_Y)
         <= Sq(ARENA_RADIUS - 50)
    /\ food[id].x % GRID_SIZE = 0
    /\ food[id].y % GRID_SIZE = 0

\* C30: a tick with elapsed time dt moves each avatar whose heading is a
\* number and whose new position is inside the arena to the point
\* speed * dt / 1000 px along its heading, speed being 200, or 300 when
\* boosting: the distance covered is exactly that; an avatar at the arena
\* centre is, after one second, 200 px (boosting 300 px) from the centre and
\* inside the arena
C30_PositionIntegration ==
  [][last'.op = "tick" =>
       \A p \in DOMAIN players :
         LET pl == players[p]
             new == Integrated(pl, last'.deltaTime)
             inside == Dist2(new.x, new.y, ARENA_CENTER_X, ARENA_CENTER_Y)
                         <= Sq(ARENA_RADIUS)
         IN (pl.targetAngle.fin /\ inside) =>
              /\ 1000 * new.moveDistance =
                   (IF pl.isBoosting THEN 300 ELSE 200) * last'.deltaTime
              /\ players'[p].x = new.x
              /\ players'[p].y = new.y
              /\ Dist2(players'[p].x, players'[p].y, pl.x, pl.y) = Sq(new.moveDistance)
              /\ (pl.x = ARENA_CENTER_X /\ pl.y = ARENA_CENTER_Y
                    /\ last'.deltaTime = 1000) =>
                   /\ Dist2(players'[p].x, players'[p].y,
                            ARENA_CENTER_X, ARENA_CENTER_Y)
                        = Sq(IF pl.isBoosting THEN 300 ELSE 200)
                   /\ p \notin last'.blocked]_vars

\* the first tick, of one second, has moved an avatar that was not boosting
\* from the arena centre along an oblique heading: it is 200 px away
C30_Witness ==
  /\ last.op = "tick"
  /\ last.deltaTime = 1000
  /\ ticks = 1
  /\ \E p \in DOMAIN players :
       /\ ~players[p].isBoosting
       /\ players[p].x # ARENA_CENTER_X
       /\ players[p].y # ARENA_CENTER_Y
       /\ Dist2(players[p].x, players[p].y, ARENA_CENTER_X, ARENA_CENTER_Y) = Sq(200)

(***************************************************************************)
(* Claims about what holds between the handlers of the server, checked     *)
(* under Spec.                                                             *)
(***************************************************************************)
\* C33: between handlers the first segment of every registered avatar is at
\* the avatar's position, so a pellet is within eating range of segments[0]
\* exactly when it is within that range of (x, y).
C33_HeadIsPosition ==
  \A p \in DOMAIN players :
    /\ Len(players[p].segments) >= 1
    /\ players[p].segments[1] = [x |-> players[p].x, y |-> players[p].y]
    /\ \A id \in DOMAIN food :
         HeadWithin(players[p], food[id], EatRange)
           <=> Dist2(players[p].x, players[p].y, food[id].x, food[id].y)
                 <= EatRange * EatRange

\* a tick has moved an avatar that has grown by an accepted claim
C33_Witness ==
  /\ last.op = "tick"
  /\ \E p \in DOMAIN players \ last.blocked :
       /\ players[p].length > SNAKE_INITIAL_LENGTH
       /\ players[p].segments[1] = [x |-> players[p].x, y |-> players[p].y]

\* C34: between handlers the pool holds exactly MAX_FOOD pellets, so the
\* maintainFood of a tick finds no shortfall: a tick sends no food message
\* and issues no food id.
C34_PoolAtCapacity ==
  /\ Cardinality(DOMAIN food) = MAX_FOOD
  /\ FoodShortfall(food) = 0
  /\ last.op = "tick" => FoodUpdates(wire, "spawn") = {}
  /\ nextFoodId = MAX_FOOD + 1 + Cardinality(DOMAIN eaten)

\* a tick has run after a claim was accepted and its pellet replaced
C34_Witness ==
  /\ last.op = "tick"
  /\ DOMAIN eaten # {}
  /\ Cardinality(DOMAIN food) = MAX_FOOD
  /\ DOMAIN food # 1..MAX_FOOD

\* C38: an avatar that has received no input keeps its spawn heading through
\* a tick; stated for the tick that directly follows the avatar's join, when
\* its heading is still the one addPlayer drew
C38_SpawnHeadingKept ==
  [][(last.op = "connection" /\ last'.op = "tick")
       => /\ last.player \in DOMAIN players'
          /\ players'[last.player].angle = players[last.player].angle]_vars

(***************************************************************************)
(* Claims about restarting the game, checked under RestartSpec.            *)
(***************************************************************************)
\* C35: a NetClient on which disconnect() was called emits no 'disconnected'
\* event afterwards and sets no reconnection timer, and the client never
\* has two live sessions on the server, one per NetClient
C35_DisconnectIsFinal ==
  oldNet.exists =>
    /\ oldNet.disconnected = 0
    /\ oldNet.scheduled = 0
    /\ ~(net.ws \in DOMAIN players /\ oldNet.client.ws \in DOMAIN players)

====
